---- MODULE Spec2Model ----
(***************************************************************************)
(* Model of the cryptographic primitives and classical-cipher engine of    *)
(* the Bitcoin puzzle workbench (src/lib/web-scraper.ts: Bitcoin           *)
(* utilities; src/lib/crypto-utils.ts: ciphers, codecs, matrix engine).    *)
(*                                                                         *)
(* Representation.  A JavaScript string is a sequence of character codes   *)
(* (UTF-16 code units), a Buffer is a sequence of bytes 0..255.  Sequences *)
(* are 1-based here; the source's 0-based indices are kept in the          *)
(* operators' parameters and shifted at each access.  A thrown Error is a  *)
(* result record with ok = FALSE.                                          *)
(***************************************************************************)
EXTENDS Integers, Sequences, FiniteSets, TLC

VARIABLES
    pc,         \* position of the running call: "start", ..., "done"
    op,         \* which operation this behaviour exercises
    b58In,      \* base58Encode's argument (a Buffer)
    b58Str,     \* a Base58 string: base58Encode's result / base58Decode's argument
    b58Out,     \* base58Decode's outcome: [ok, error, bytes]
    wifKey,     \* privateKeyToWIF's privateKeyHex
    wifFlags,   \* privateKeyToWIF's [compressed, mainnet]
    wifStr,     \* the WIF string
    wifOut,     \* wifToPrivateKey's outcome: [ok, error, privateKey, compressed, mainnet]
    hexText,    \* asciiToHex's argument
    hexStr,     \* asciiToHex's result / hexToAscii's argument
    hexOut,     \* hexToAscii's result (a string)
    cText,      \* the text handed to decryptBeaufort / vigenereCipher
    cKey,       \* the key handed to them
    cMid,       \* the result of the first call
    cOut,       \* the result of the second call, made on cMid
    matrix,     \* readSpiralMatrix's matrix: a sequence of rows
    counterClockwise,   \* its direction flag
    top, bottom, left, right,   \* the bounding box of readSpiralMatrix
    result,     \* the cells read so far, in order
    numbers,    \* decryptVIC's numbers
    vicAlphabet,        \* decryptVIC's alphabet
    digitRow1, digitRow2,       \* decryptVIC's escape digits
    vicDigits,  \* numbers without whitespace
    charMap,    \* the checkerboard: code -> symbol
    vicI,       \* the scan's index i
    vicResult,  \* the scan's result so far
    vicOut,     \* decryptVIC's return value
    frame       \* the arguments, locals and return value of any other running call

b58Vars == <<b58In, b58Str, b58Out>>
wifVars == <<wifKey, wifFlags, wifStr, wifOut>>
hexVars == <<hexText, hexStr, hexOut>>
cipherVars == <<cText, cKey, cMid, cOut>>
codecVars == <<b58Vars, wifVars, hexVars>>
spiralVars == <<matrix, counterClockwise, top, bottom, left, right, result>>
vicVars == <<numbers, vicAlphabet, digitRow1, digitRow2, vicDigits, charMap, vicI,
             vicResult, vicOut>>
classicVars == <<codecVars, cipherVars, spiralVars, vicVars>>
vars == <<pc, op, classicVars, frame>>

(***************************************************************************)
(* Bounds of the model.                                                    *)
(***************************************************************************)
MaxBytes == 3       \* longest Buffer handed to base58Encode
MaxStr == 3         \* longest string handed to base58Decode
MaxText == 3        \* longest text handed to asciiToHex
MaxCipherText == 3  \* longest text handed to a cipher
MaxKey == 2         \* longest cipher key
MaxDim == 4         \* largest number of rows and of columns of a matrix
MaxNumbers == 3     \* longest numbers string handed to decryptVIC

(***************************************************************************)
(* Strings and sequences.                                                  *)
(***************************************************************************)
\* All sequences over S of length 0..n.
SeqsUpTo(S, n) == UNION {[1..k -> S] : k \in 0..n}

\* Array.prototype.reverse
Reverse(s) == [i \in 1..Len(s) |-> s[Len(s) + 1 - i]]

\* String.prototype.indexOf for a one-character needle: 0-based, -1 if absent.
IndexOf(str, ch) ==
    IF \E i \in 1..Len(str) : str[i] = ch
    THEN (CHOOSE i \in 1..Len(str) :
              str[i] = ch /\ \A j \in 1..(i - 1) : str[j] # ch) - 1
    ELSE -1

\* Number of leading elements of s equal to x.
LeadingCount(s, x) ==
    CHOOSE n \in 0..Len(s) :
        /\ \A i \in 1..n : s[i] = x
        /\ n < Len(s) => s[n + 1] # x

\* n copies of x
Repeat(x, n) == [i \in 1..n |-> x]

\* The loop  for (i = lo; i <= hi; i++) x = F(i, x)  and its final x.  The
\* range is split in halves so that long loops evaluate in shallow
\* recursion; the test on half makes the first half's value be computed
\* before the second half starts.
RECURSIVE ForRange(_, _, _, _)
ForRange(F(_, _), lo, hi, x) ==
    IF lo > hi THEN x
    ELSE IF lo = hi THEN F(lo, x)
    ELSE LET mid  == (lo + hi) \div 2
             half == ForRange(F, lo, mid, x)
         IN  IF half = half THEN ForRange(F, mid + 1, hi, half) ELSE x

(***************************************************************************)
(* Base58 (src/lib/web-scraper.ts).                                        *)
(***************************************************************************)
\* "123456789ABCDEFGHJKLMNPQRSTUVWXYZabcdefghijkmnopqrstuvwxyz"
BASE58_ALPHABET ==
    <<49, 50, 51, 52, 53, 54, 55, 56, 57, 65, 66, 67, 68, 69, 70, 71, 72, 74,
      75, 76, 77, 78, 80, 81, 82, 83, 84, 85, 86, 87, 88, 89, 90, 97, 98, 99,
      100, 101, 102, 103, 104, 105, 106, 107, 109, 110, 111, 112, 113, 114,
      115, 116, 117, 118, 119, 120, 121, 122>>

\* One pass of the body of base58Decode's inner loop, at index i:
\*   const n = bytes[i] * 58 + carry; bytes[i] = n % 256
\*   if (i === bytes.length - 1 && n >= 256) bytes.push(floor(n / 256))
\*   else if (n >= 256) bytes[i + 1] = (bytes[i + 1] || 0) + floor(n / 256)
\* carry is the constant digit of the character being read.
DecodeBody(bytes, i, carry) ==
    LET n  == bytes[i + 1] * 58 + carry
        b1 == [bytes EXCEPT ![i + 1] = n % 256]
    IN  IF i = Len(bytes) - 1 /\ n >= 256
        THEN Append(b1, n \div 256)
        ELSE IF n >= 256
             THEN [b1 EXCEPT ![i + 2] = b1[i + 2] + (n \div 256)]
             ELSE b1

\* The inner loop from index i on, for (...; i < bytes.length; i++):
\* bytes.length is re-read at every test, so a byte pushed by the last index
\* is itself visited.
RECURSIVE DecodeFrom(_, _, _)
DecodeFrom(bytes, i, carry) ==
    IF i >= Len(bytes) THEN bytes
    ELSE DecodeFrom(DecodeBody(bytes, i, carry), i + 1, carry)

\* The whole inner loop, for (let i = 0; i < bytes.length; i++): the indices
\* that exist on entry, then those pushed meanwhile.
DecodeInner(bytes, carry) ==
    DecodeFrom(ForRange(LAMBDA i, b : DecodeBody(b, i, carry), 0, Len(bytes) - 1, bytes),
               Len(bytes), carry)

Base58Throw == [ok |-> FALSE, error |-> "Invalid Base58 character", bytes |-> <<>>]

\* The body of base58Decode's outer loop for the character str[k]; a throw
\* ends the loop, so nothing is done once st.ok is FALSE.
DecodeChar(str, k, st) ==
    IF ~st.ok THEN st
    ELSE LET carry == IndexOf(BASE58_ALPHABET, str[k])
         IN  IF carry = -1 THEN Base58Throw
             ELSE [st EXCEPT !.bytes = DecodeInner(st.bytes, carry)]

\* base58Decode with the alphabet test skipping a foreign character instead
\* of throwing.
base58DecodeSkipping(str) ==
    LET known == SelectSeq(str, LAMBDA ch : IndexOf(BASE58_ALPHABET, ch) # -1)
        r == ForRange(LAMBDA k, st : DecodeChar(known, k, st), 1, Len(known),
                      [ok |-> TRUE, error |-> "", bytes |-> <<0>>])
    IN  [r EXCEPT !.bytes = Reverse(r.bytes \o Repeat(0, LeadingCount(str, 49)))]

\* base58Decode(str): starts from bytes = [0], pushes one 0 per leading '1',
\* returns the reversed array.
base58Decode(str) ==
    LET r == ForRange(LAMBDA k, st : DecodeChar(str, k, st), 1, Len(str),
                      [ok |-> TRUE, error |-> "", bytes |-> <<0>>])
    IN  IF ~r.ok THEN r
        ELSE [r EXCEPT !.bytes =
                  Reverse(r.bytes \o Repeat(0, LeadingCount(str, 49)))]

\* The body of base58Encode's first inner loop at index i:
\*   carry += digits[i] * 256; digits[i] = carry % 58; carry = floor(carry / 58)
EncodeBody(st, i) ==
    LET c == st.carry + st.digits[i + 1] * 256
    IN  [digits |-> [st.digits EXCEPT ![i + 1] = c % 58], carry |-> c \div 58]

\* while (carry > 0) { digits.push(carry % 58); carry = floor(carry / 58) }
RECURSIVE EncodePush(_, _)
EncodePush(digits, carry) ==
    IF carry > 0 THEN EncodePush(Append(digits, carry % 58), carry \div 58)
    ELSE digits

\* The body of base58Encode's outer loop for one byte.
EncodeByte(digits, byte) ==
    LET r == ForRange(LAMBDA i, st : EncodeBody(st, i), 0, Len(digits) - 1,
                      [digits |-> digits, carry |-> byte])
    IN  EncodePush(r.digits, r.carry)

\* base58Encode(buffer): starts from digits = [0], pushes one 0 per leading
\* zero byte, reverses and maps each digit to its alphabet character.
base58Encode(buffer) ==
    LET digits == ForRange(LAMBDA k, d : EncodeByte(d, buffer[k]), 1, Len(buffer), <<0>>)
                  \o Repeat(0, LeadingCount(buffer, 0))
        rev    == Reverse(digits)
    IN  [i \in 1..Len(rev) |-> BASE58_ALPHABET[rev[i] + 1]]

(***************************************************************************)
(* Hexadecimal strings and Buffers.                                        *)
(***************************************************************************)
\* "0123456789abcdef"
HEX_DIGITS == <<48, 49, 50, 51, 52, 53, 54, 55, 56, 57, 97, 98, 99, 100, 101, 102>>

\* Value of a hexadecimal digit of either case, -1 for any other character.
HexVal(ch) ==
    IF ch \in 48..57 THEN ch - 48
    ELSE IF ch \in 97..102 THEN ch - 87
    ELSE IF ch \in 65..70 THEN ch - 55
    ELSE -1

\* Buffer.from(str, "hex"): two characters per byte, stopping at the first
\* pair that is not two hexadecimal digits; an odd last character is dropped.
BufferFromHex(str) ==
    LET pairOk(k) == HexVal(str[2 * k - 1]) # -1 /\ HexVal(str[2 * k]) # -1
        n == CHOOSE m \in 0..(Len(str) \div 2) :
                 /\ \A k \in 1..m : pairOk(k)
                 /\ m < Len(str) \div 2 => ~pairOk(m + 1)
    IN  [k \in 1..n |-> HexVal(str[2 * k - 1]) * 16 + HexVal(str[2 * k])]

\* Number.prototype.toString(16) of n >= 0
RECURSIVE ToString16(_)
ToString16(n) ==
    IF n < 16 THEN <<HEX_DIGITS[n + 1]>>
    ELSE Append(ToString16(n \div 16), HEX_DIGITS[(n % 16) + 1])

\* String.prototype.padStart(2, "0")
PadStart2(s) == IF Len(s) < 2 THEN Repeat(48, 2 - Len(s)) \o s ELSE s

\* Buffer.prototype.toString("hex")
BufferToHex(buffer) ==
    [i \in 1..(2 * Len(buffer)) |-> PadStart2(ToString16(buffer[(i + 1) \div 2]))[2 - (i % 2)]]

\* Buffer.prototype.subarray(start, end) with 0-based offsets already
\* resolved (negative offsets count from the end and are clamped).
Subarray(buffer, start, end) ==
    LET clamp(x) == IF x < 0 THEN (IF Len(buffer) + x < 0 THEN 0 ELSE Len(buffer) + x)
                    ELSE (IF x > Len(buffer) THEN Len(buffer) ELSE x)
    IN  SubSeq(buffer, clamp(start) + 1, clamp(end))

(***************************************************************************)
(* Hash layer.  SHA-256 is the library's; the model keeps what the code    *)
(* relies on, a fixed function from a Buffer to 32 bytes, and stands in a  *)
(* small mixing function for it.                                           *)
(***************************************************************************)
Mix(buffer, h0) ==
    ForRange(LAMBDA k, h : (h * 33 + buffer[k] + 1) % 65521, 1, Len(buffer), h0)

\* SHA-256 of the buffers privateKeyToAddress hashes for the private key 1:
\* the compressed and the uncompressed public key, the two versioned hashes
\* and their digests; pairs of a buffer and its digest.
Sha256Known ==
    <<
    <<
      <<2, 121, 190, 102, 126, 249, 220, 187, 172, 85, 160, 98, 149, 206,
        135, 11, 7, 2, 155, 252, 219, 45, 206, 40, 217, 89, 242, 129, 91, 22,
        248, 23, 152>>,
      <<15, 113, 91, 175, 93, 76, 46, 211, 41, 120, 92, 239, 41, 229, 98,
        247, 52, 136, 200, 162, 187, 157, 188, 87, 0, 179, 97, 213, 75, 155,
        5, 84>>
    >>,
    <<
      <<0, 117, 30, 118, 232, 25, 145, 150, 212, 84, 148, 28, 69, 209, 179,
        163, 35, 241, 67, 59, 214>>,
      <<197, 162, 237, 112, 210, 192, 53, 16, 140, 36, 21, 121, 33, 98, 166,
        218, 175, 33, 230, 220, 1, 90, 206, 15, 154, 69, 141, 211, 240, 29,
        165, 152>>
    >>,
    <<
      <<197, 162, 237, 112, 210, 192, 53, 16, 140, 36, 21, 121, 33, 98, 166,
        218, 175, 33, 230, 220, 1, 90, 206, 15, 154, 69, 141, 211, 240, 29,
        165, 152>>,
      <<81, 13, 22, 52, 217, 67, 16, 155, 105, 218, 82, 126, 245, 148, 129,
        6, 242, 43, 101, 95, 181, 25, 59, 78, 158, 247, 228, 220, 211, 66,
        210, 69>>
    >>,
    <<
      <<4, 121, 190, 102, 126, 249, 220, 187, 172, 85, 160, 98, 149, 206,
        135, 11, 7, 2, 155, 252, 219, 45, 206, 40, 217, 89, 242, 129, 91, 22,
        248, 23, 152, 72, 58, 218, 119, 38, 163, 196, 101, 93, 164, 251, 252,
        14, 17, 8, 168, 253, 23, 180, 72, 166, 133, 84, 25, 156, 71, 208,
        143, 251, 16, 212, 184>>,
      <<80, 146, 155, 116, 193, 160, 73, 84, 183, 139, 75, 96, 53, 233, 122,
        94, 7, 138, 90, 15, 40, 236, 150, 213, 71, 191, 238, 154, 206, 128,
        58, 192>>
    >>,
    <<
      <<0, 145, 178, 75, 249, 245, 40, 133, 50, 150, 10, 198, 135, 171, 176,
        53, 18, 123, 29, 40, 165>>,
      <<121, 250, 146, 107, 244, 172, 135, 64, 96, 178, 68, 214, 233, 133,
        198, 148, 35, 62, 237, 13, 85, 98, 192, 184, 140, 223, 55, 191, 187,
        128, 180, 79>>
    >>,
    <<
      <<121, 250, 146, 107, 244, 172, 135, 64, 96, 178, 68, 214, 233, 133,
        198, 148, 35, 62, 237, 13, 85, 98, 192, 184, 140, 223, 55, 191, 187,
        128, 180, 79>>,
      <<0, 116, 255, 224, 82, 109, 130, 59, 224, 155, 57, 134, 84, 34, 161,
        214, 19, 90, 252, 133, 175, 176, 166, 134, 60, 88, 233, 254, 137,
        152, 145, 112>>
    >>
    >>

\* crypto.createHash("sha256").update(buffer).digest(): the library's digest
\* for the buffers above, the mixing function for every other buffer.
sha256(buffer) ==
    IF \E k \in 1..Len(Sha256Known) : Sha256Known[k][1] = buffer
    THEN Sha256Known[CHOOSE k \in 1..Len(Sha256Known) : Sha256Known[k][1] = buffer][2]
    ELSE LET h == Mix(buffer, Len(buffer))
         IN  [j \in 1..32 |-> (((h + 1) * (29 * j * j + 7 * j + 1000)) % 65521) % 256]

\* doubleSha256(buffer)
doubleSha256(buffer) == sha256(sha256(buffer))

(***************************************************************************)
(* WIF (src/lib/web-scraper.ts).                                           *)
(***************************************************************************)
\* privateKeyToWIF(privateKeyHex, compressed, mainnet)
privateKeyToWIF(privateKeyHex, compressed, mainnet) ==
    LET privateKeyBuffer == BufferFromHex(privateKeyHex)
        version     == IF mainnet THEN 128 ELSE 239
        extendedKey == IF compressed
                       THEN <<version>> \o privateKeyBuffer \o <<1>>
                       ELSE <<version>> \o privateKeyBuffer
        checksum    == Subarray(doubleSha256(extendedKey), 0, 4)
    IN  base58Encode(extendedKey \o checksum)

WifError(msg) ==
    [ok |-> FALSE, error |-> msg, privateKey |-> <<>>,
     compressed |-> FALSE, mainnet |-> FALSE]

\* wifToPrivateKey with the payload's length looked at before the checksum.
wifToPrivateKeyLengthFirst(wif) ==
    LET d == base58Decode(wif)
    IN  IF ~d.ok THEN WifError(d.error)
        ELSE
        LET decoded  == d.bytes
            payload  == Subarray(decoded, 0, -4)
            checksum == IF Len(decoded) < 4 THEN decoded
                        ELSE Subarray(decoded, -4, Len(decoded))
            calculatedChecksum == Subarray(doubleSha256(payload), 0, 4)
        IN  IF ~(Len(payload) = 33 \/ (Len(payload) = 34 /\ payload[34] = 1))
            THEN WifError("Invalid WIF format")
            ELSE IF checksum # calculatedChecksum THEN WifError("Invalid WIF checksum")
            ELSE [ok |-> TRUE, error |-> "",
                  privateKey |-> BufferToHex(Subarray(payload, 1, 33)),
                  compressed |-> Len(payload) = 34, mainnet |-> payload[1] = 128]

\* wifToPrivateKey(wif)
wifToPrivateKey(wif) ==
    LET d == base58Decode(wif)
    IN  IF ~d.ok THEN WifError(d.error)
        ELSE
        LET decoded  == d.bytes
            payload  == Subarray(decoded, 0, -4)
            checksum == IF Len(decoded) < 4 THEN decoded
                        ELSE Subarray(decoded, -4, Len(decoded))
            calculatedChecksum == Subarray(doubleSha256(payload), 0, 4)
        IN  IF checksum # calculatedChecksum THEN WifError("Invalid WIF checksum")
            ELSE IF Len(payload) = 34 /\ payload[34] = 1
            THEN [ok |-> TRUE, error |-> "",
                  privateKey |-> BufferToHex(Subarray(payload, 1, 33)),
                  compressed |-> TRUE, mainnet |-> payload[1] = 128]
            ELSE IF Len(payload) = 33
            THEN [ok |-> TRUE, error |-> "",
                  privateKey |-> BufferToHex(Subarray(payload, 1, 33)),
                  compressed |-> FALSE, mainnet |-> payload[1] = 128]
            ELSE WifError("Invalid WIF format")

(***************************************************************************)
(* Hex <-> ASCII (src/lib/crypto-utils.ts).                                *)
(***************************************************************************)
\* The characters the regular expression class \s matches.
IsSpace(ch) ==
    ch \in {9, 10, 11, 12, 13, 32, 160, 5760, 8232, 8233, 8239, 8287, 12288, 65279}
           \cup (8192..8202)

\* str.replace(/\s/g, "")
StripSpace(str) == SelectSeq(str, LAMBDA ch : ~IsSpace(ch))

\* str.replace(/^0x/i, "")
Strip0x(str) ==
    IF Len(str) >= 2 /\ str[1] = 48 /\ str[2] \in {120, 88}
    THEN SubSeq(str, 3, Len(str)) ELSE str

\* "Error: Invalid hexadecimal input"
ErrInvalidHex ==
    <<69, 114, 114, 111, 114, 58, 32, 73, 110, 118, 97, 108, 105, 100, 32, 104,
      101, 120, 97, 100, 101, 99, 105, 109, 97, 108, 32, 105, 110, 112, 117, 116>>
\* "Error: Hexadecimal string must have even length"
ErrOddHex ==
    <<69, 114, 114, 111, 114, 58, 32, 72, 101, 120, 97, 100, 101, 99, 105, 109,
      97, 108, 32, 115, 116, 114, 105, 110, 103, 32, 109, 117, 115, 116, 32, 104,
      97, 118, 101, 32, 101, 118, 101, 110, 32, 108, 101, 110, 103, 116, 104>>

\* The loop of hexToAscii: one character per two hex digits.
RECURSIVE HexPairs(_)
HexPairs(cleaned) ==
    IF cleaned = <<>> THEN <<>>
    ELSE <<HexVal(cleaned[1]) * 16 + HexVal(cleaned[2])>>
         \o HexPairs(SubSeq(cleaned, 3, Len(cleaned)))

\* hexToAscii(hex)
hexToAscii(hex) ==
    LET cleaned == Strip0x(StripSpace(hex))
    IN  IF ~(cleaned # <<>> /\ \A i \in 1..Len(cleaned) : HexVal(cleaned[i]) # -1)
        THEN ErrInvalidHex
        ELSE IF Len(cleaned) % 2 # 0 THEN ErrOddHex
        ELSE HexPairs(cleaned)

\* asciiToHex(text)
RECURSIVE asciiToHex(_)
asciiToHex(text) ==
    IF text = <<>> THEN <<>>
    ELSE PadStart2(ToString16(Head(text))) \o asciiToHex(Tail(text))

(***************************************************************************)
(* Classical ciphers (src/lib/crypto-utils.ts).                            *)
(***************************************************************************)
\* "ABCDEFGHIJKLMNOPQRSTUVWXYZ"
alphabet ==
    <<65, 66, 67, 68, 69, 70, 71, 72, 73, 74, 75, 76, 77, 78, 79, 80, 81, 82,
      83, 84, 85, 86, 87, 88, 89, 90>>

\* String.prototype.toUpperCase of one character, a string: the ASCII and
\* Latin-1 letters, and the characters whose upper case is ASCII or has more
\* than one character: dotless i (U+0131) -> "I", long s (U+017F) -> "S",
\* sharp s (U+00DF) -> "SS", the ligature long-s-t (U+FB05) -> "ST".
ToUpperCase(ch) ==
    IF ch \in 97..122 THEN <<ch - 32>>
    ELSE IF ch = 305 THEN <<73>>
    ELSE IF ch = 383 THEN <<83>>
    ELSE IF ch = 223 THEN <<83, 83>>
    ELSE IF ch = 64261 THEN <<83, 84>>
    ELSE IF ch \in (224..254) \ {247} THEN <<ch - 32>>
    ELSE <<ch>>

\* String.prototype.toLowerCase of an upper-case ASCII letter
ToLowerCase(ch) == IF ch \in 65..90 THEN ch + 32 ELSE ch

\* String.prototype.indexOf for a string needle: 0-based, -1 if absent.
IndexOfStr(str, needle) ==
    LET at(k) == /\ k + Len(needle) <= Len(str)
                 /\ \A j \in 1..Len(needle) : str[k + j] = needle[j]
    IN  IF \E k \in 0..Len(str) : at(k)
        THEN CHOOSE k \in 0..Len(str) : at(k) /\ \A m \in 0..(k - 1) : ~at(m)
        ELSE -1

\* key.toUpperCase().replace(/[^A-Z]/g, "")
NormalizeKey(key) ==
    LET upper == ForRange(LAMBDA k, s : s \o ToUpperCase(key[k]), 1, Len(key), <<>>)
    IN  SelectSeq(upper, LAMBDA ch : ch \in 65..90)

\* "Error: Key must contain at least one letter"
ErrKeyNoLetter ==
    <<69, 114, 114, 111, 114, 58, 32, 75, 101, 121, 32, 109, 117, 115, 116, 32,
      99, 111, 110, 116, 97, 105, 110, 32, 97, 116, 32, 108, 101, 97, 115, 116,
      32, 111, 110, 101, 32, 108, 101, 116, 116, 101, 114>>

\* Beaufort with the difference taken the wrong way round.
BeaufortIndexSwapped(keyCharIndex, charIndex) == (charIndex - keyCharIndex + 26) % 26

\* const decryptedIndex = (keyCharIndex - charIndex + 26) % 26
BeaufortIndex(keyCharIndex, charIndex) == (keyCharIndex - charIndex + 26) % 26

\* The body of decryptBeaufort's loop for the character char; st is
\* [result, keyIndex].
BeaufortChar(char, normalizedKey, st) ==
    LET upperChar == ToUpperCase(char)
        charIndex == IndexOfStr(alphabet, upperChar)
    IN  IF charIndex # -1
        THEN LET keyChar        == normalizedKey[(st.keyIndex % Len(normalizedKey)) + 1]
                 keyCharIndex   == IndexOf(alphabet, keyChar)
                 decryptedIndex == BeaufortIndex(keyCharIndex, charIndex)
             IN  [result   |-> IF <<char>> = upperChar
                               THEN Append(st.result, alphabet[decryptedIndex + 1])
                               ELSE Append(st.result, ToLowerCase(alphabet[decryptedIndex + 1])),
                  keyIndex |-> st.keyIndex + 1]
        ELSE [st EXCEPT !.result = Append(st.result, char)]

\* decryptBeaufort(ciphertext, key)
decryptBeaufort(ciphertext, key) ==
    LET normalizedKey == NormalizeKey(key)
    IN  IF Len(normalizedKey) = 0 THEN ErrKeyNoLetter
        ELSE ForRange(LAMBDA k, st : BeaufortChar(ciphertext[k], normalizedKey, st),
                      1, Len(ciphertext), [result |-> <<>>, keyIndex |-> 0]).result

\* Vigenere that adds the key in both directions.
VigenereIndexNoDecrypt(charIndex, keyCharIndex, decrypt) == (charIndex + keyCharIndex) % 26

\* newIndex = decrypt ? (charIndex - keyCharIndex + 26) % 26
\*                    : (charIndex + keyCharIndex) % 26
VigenereIndex(charIndex, keyCharIndex, decrypt) ==
    IF decrypt THEN (charIndex - keyCharIndex + 26) % 26
    ELSE (charIndex + keyCharIndex) % 26

\* The body of vigenereCipher's loop for the character char; st is
\* [result, keyIndex].
VigenereChar(char, normalizedKey, decrypt, st) ==
    LET upperChar == ToUpperCase(char)
        charIndex == IndexOfStr(alphabet, upperChar)
    IN  IF charIndex # -1
        THEN LET keyChar      == normalizedKey[(st.keyIndex % Len(normalizedKey)) + 1]
                 keyCharIndex == IndexOf(alphabet, keyChar)
                 newIndex     == VigenereIndex(charIndex, keyCharIndex, decrypt)
             IN  [result   |-> IF <<char>> = upperChar
                               THEN Append(st.result, alphabet[newIndex + 1])
                               ELSE Append(st.result, ToLowerCase(alphabet[newIndex + 1])),
                  keyIndex |-> st.keyIndex + 1]
        ELSE [st EXCEPT !.result = Append(st.result, char)]

\* vigenereCipher without the test of the key's length: the text comes back
\* as it is when the key has no letter.
vigenereCipherNoKeyTest(text, key, decrypt) ==
    LET normalizedKey == NormalizeKey(key)
    IN  IF Len(normalizedKey) = 0 THEN text
        ELSE ForRange(LAMBDA k, st : VigenereChar(text[k], normalizedKey, decrypt, st),
                      1, Len(text), [result |-> <<>>, keyIndex |-> 0]).result

\* vigenereCipher(text, key, decrypt)
vigenereCipher(text, key, decrypt) ==
    LET normalizedKey == NormalizeKey(key)
    IN  IF Len(normalizedKey) = 0 THEN ErrKeyNoLetter
        ELSE ForRange(LAMBDA k, st : VigenereChar(text[k], normalizedKey, decrypt, st),
                      1, Len(text), [result |-> <<>>, keyIndex |-> 0]).result

(***************************************************************************)
(* Matrix engine (src/lib/crypto-utils.ts).                                *)
(***************************************************************************)
\* The values a loop variable takes in  for (i = a; i <= b; i++)
Up(a, b) == [k \in 1..(b - a + 1) |-> a + k - 1]
\* and in  for (i = a; i >= b; i--)
Down(a, b) == [k \in 1..(a - b + 1) |-> a - k + 1]

\* matrix[i][j] with the source's 0-based indices
At(m, i, j) == m[i + 1][j + 1]

\* The cells of column j at the rows is, and of row i at the columns js.
ColumnCells(m, is, j) == [k \in 1..Len(is) |-> At(m, is[k], j)]
RowCells(m, i, js) == [k \in 1..Len(js) |-> At(m, i, js[k])]

\* The clockwise loop body without the guards of its last two sides.
SpiralBodyCWUnguarded(m, b, res) ==
    LET r1   == res \o RowCells(m, b.top, Up(b.left, b.right))
        top1 == b.top + 1
        r2   == r1 \o ColumnCells(m, Up(top1, b.bottom), b.right)
        right1 == b.right - 1
        r3   == r2 \o RowCells(m, b.bottom, Down(right1, b.left))
        bottom1 == b.bottom - 1
        r4   == r3 \o ColumnCells(m, Down(bottom1, top1), b.left)
    IN  [top |-> top1, bottom |-> bottom1, left |-> b.left + 1, right |-> right1,
         result |-> r4]

\* One pass of the while loop's body, clockwise branch: top row, right
\* column, bottom row if top <= bottom, left column if left <= right.
SpiralBodyCW(m, b, res) ==
    LET r1   == res \o RowCells(m, b.top, Up(b.left, b.right))
        top1 == b.top + 1
        r2   == r1 \o ColumnCells(m, Up(top1, b.bottom), b.right)
        right1 == b.right - 1
        bottomRow == top1 <= b.bottom
        r3   == IF bottomRow THEN r2 \o RowCells(m, b.bottom, Down(right1, b.left)) ELSE r2
        bottom1 == IF bottomRow THEN b.bottom - 1 ELSE b.bottom
        leftCol == b.left <= right1
        r4   == IF leftCol THEN r3 \o ColumnCells(m, Down(bottom1, top1), b.left) ELSE r3
        left1 == IF leftCol THEN b.left + 1 ELSE b.left
    IN  [top |-> top1, bottom |-> bottom1, left |-> left1, right |-> right1,
         result |-> r4]

\* One pass of the while loop's body, counter-clockwise branch: left column,
\* bottom row, right column if left <= right, top row if top <= bottom.
SpiralBodyCCW(m, b, res) ==
    LET r1   == res \o ColumnCells(m, Up(b.top, b.bottom), b.left)
        left1 == b.left + 1
        r2   == r1 \o RowCells(m, b.bottom, Up(left1, b.right))
        bottom1 == b.bottom - 1
        rightCol == left1 <= b.right
        r3   == IF rightCol THEN r2 \o ColumnCells(m, Down(bottom1, b.top), b.right) ELSE r2
        right1 == IF rightCol THEN b.right - 1 ELSE b.right
        topRow == b.top <= bottom1
        r4   == IF topRow THEN r3 \o RowCells(m, b.top, Down(right1, left1)) ELSE r3
        top1 == IF topRow THEN b.top + 1 ELSE b.top
    IN  [top |-> top1, bottom |-> bottom1, left |-> left1, right |-> right1,
         result |-> r4]

(***************************************************************************)
(* VIC cipher, a straddling checkerboard (src/lib/crypto-utils.ts).        *)
(***************************************************************************)
\* String(n) of a number n >= 0
RECURSIVE String(_)
String(n) == IF n < 10 THEN <<48 + n>> ELSE Append(String(n \div 10), 48 + (n % 10))

\* alphabet.toUpperCase()
StringToUpperCase(str) ==
    ForRange(LAMBDA k, s : s \o ToUpperCase(str[k]), 1, Len(str), <<>>)

\* The filter with the second escape digit forgotten.
SingleDigitsOneEscape(row1, row2) == SelectSeq(Up(0, 9), LAMBDA d : d # row1)

\* [0, 1, ..., 9].filter((d) => d !== digitRow1 && d !== digitRow2)
SingleDigits(row1, row2) == SelectSeq(Up(0, 9), LAMBDA d : d # row1 /\ d # row2)

\* A Map without entries
EmptyMap == [code \in {} |-> 0]

\* if (alphabetIndex < cleanAlphabet.length) {
\*   charMap.set(code, cleanAlphabet[alphabetIndex]); alphabetIndex++ }
\* st is [charMap, alphabetIndex].
MapSet(st, code, cleanAlphabet) ==
    IF st.alphabetIndex < Len(cleanAlphabet)
    THEN [charMap |-> (code :> cleanAlphabet[st.alphabetIndex + 1]) @@ st.charMap,
          alphabetIndex |-> st.alphabetIndex + 1]
    ELSE st

\* The three loops that fill charMap: the single digits, then digitRow1
\* followed by 0..9, then digitRow2 followed by 0..9.
BuildCharMap(cleanAlphabet, row1, row2) ==
    LET singleDigits == SingleDigits(row1, row2)
        s1 == ForRange(LAMBDA k, st : MapSet(st, String(singleDigits[k]), cleanAlphabet),
                       1, Len(singleDigits), [charMap |-> EmptyMap, alphabetIndex |-> 0])
        s2 == ForRange(LAMBDA i, st : MapSet(st, String(row1) \o String(i), cleanAlphabet),
                       0, 9, s1)
        s3 == ForRange(LAMBDA i, st : MapSet(st, String(row2) \o String(i), cleanAlphabet),
                       0, 9, s2)
    IN  s3.charMap

\* charMap.get(code): the symbol as a string, "" standing for undefined
MapGet(map, code) == IF code \in DOMAIN map THEN <<map[code]>> ELSE <<>>

\* "Unable to decode. Check alphabet and digit assignments."
UnableToDecode ==
    <<85, 110, 97, 98, 108, 101, 32, 116, 111, 32, 100, 101, 99, 111, 100, 101,
      46, 32, 67, 104, 101, 99, 107, 32, 97, 108, 112, 104, 97, 98, 101, 116,
      32, 97, 110, 100, 32, 100, 105, 103, 105, 116, 32, 97, 115, 115, 105, 103,
      110, 109, 101, 110, 116, 115, 46>>

(***************************************************************************)
(* Inputs of the codec specification.                                      *)
(***************************************************************************)
\* Byte values tried: zero, one, the radix, the largest byte.
ByteVals == {0, 1, 58, 255}
\* Characters tried: '1' (digit 0), '2' (digit 1), 'R' (digit 24),
\* 'z' (digit 57), and '0', 'O', 'l' which are outside the alphabet.
B58Chars == {49, 50, 82, 122, 48, 79, 108}
\* Private keys tried: 32 bytes, 31 equal ones and a last one, as 64
\* lower-case hex characters.
WifKeys == {BufferToHex(Repeat(v, 31) \o <<w>>) : v \in {0, 18, 255}, w \in {1, 171, 255}}
\* Printable ASCII characters tried: ' ', '0', 'A', 'x', '~'.
TextChars == {32, 48, 65, 120, 126}

NoResult == [ok |-> FALSE, error |-> "none", bytes |-> <<>>]
NoFlags == [compressed |-> FALSE, mainnet |-> FALSE]

B58Idle == b58In = <<>> /\ b58Str = <<>> /\ b58Out = NoResult
WifIdle == wifKey = <<>> /\ wifFlags = NoFlags /\ wifStr = <<>> /\ wifOut = WifError("none")
HexIdle == hexText = <<>> /\ hexStr = <<>> /\ hexOut = <<>>
CipherIdle == cText = <<>> /\ cKey = <<>> /\ cMid = <<>> /\ cOut = <<>>
CodecIdle == B58Idle /\ WifIdle /\ HexIdle
SpiralIdle ==
    /\ matrix = <<>> /\ counterClockwise = FALSE /\ result = <<>>
    /\ top = 0 /\ bottom = 0 /\ left = 0 /\ right = 0
\* No other call is running.
NoFrame == [idle |-> TRUE]
FrameIdle == frame = NoFrame
VicIdle ==
    /\ numbers = <<>> /\ vicAlphabet = <<>> /\ digitRow1 = 1 /\ digitRow2 = 4
    /\ vicDigits = <<>> /\ charMap = EmptyMap /\ vicI = 0 /\ vicResult = <<>>
    /\ vicOut = <<>>

InitCodec ==
    /\ FrameIdle
    /\ pc = "start"
    /\ CipherIdle /\ SpiralIdle /\ VicIdle
    /\ \/ /\ op = "base58RoundTrip"
          /\ b58In \in SeqsUpTo(ByteVals, MaxBytes)
          /\ b58Str = <<>> /\ b58Out = NoResult
          /\ WifIdle /\ HexIdle
       \/ /\ op = "base58Decode"
          /\ b58Str \in SeqsUpTo(B58Chars, MaxStr)
          /\ b58In = <<>> /\ b58Out = NoResult
          /\ WifIdle /\ HexIdle
       \/ /\ op = "wifRoundTrip"
          /\ wifKey \in WifKeys
          /\ wifFlags \in [compressed : BOOLEAN, mainnet : BOOLEAN]
          /\ wifStr = <<>> /\ wifOut = WifError("none")
          /\ B58Idle /\ HexIdle
       \/ /\ op = "hexRoundTrip"
          /\ hexText \in SeqsUpTo(TextChars, MaxText)
          /\ hexStr = <<>> /\ hexOut = <<>>
          /\ B58Idle /\ WifIdle

\* base58Encode(b58In)
Base58Encode ==
    /\ pc = "start" /\ op = "base58RoundTrip"
    /\ b58Str' = base58Encode(b58In)
    /\ pc' = "encoded"
    /\ UNCHANGED <<frame, op, b58In, b58Out, wifVars, hexVars, cipherVars, spiralVars, vicVars>>

\* base58Decode(b58Str)
Base58Decode ==
    /\ \/ pc = "encoded" /\ op = "base58RoundTrip"
       \/ pc = "start" /\ op = "base58Decode"
    /\ b58Out' = base58Decode(b58Str)
    /\ pc' = "done"
    /\ UNCHANGED <<frame, op, b58In, b58Str, wifVars, hexVars, cipherVars, spiralVars, vicVars>>

\* privateKeyToWIF(wifKey, compressed, mainnet)
PrivateKeyToWIF ==
    /\ pc = "start" /\ op = "wifRoundTrip"
    /\ wifStr' = privateKeyToWIF(wifKey, wifFlags.compressed, wifFlags.mainnet)
    /\ pc' = "encoded"
    /\ UNCHANGED <<frame, op, wifKey, wifFlags, wifOut, b58Vars, hexVars, cipherVars, spiralVars, vicVars>>

\* wifToPrivateKey(wifStr)
WifToPrivateKey ==
    /\ pc = "encoded" /\ op = "wifRoundTrip"
    /\ wifOut' = wifToPrivateKey(wifStr)
    /\ pc' = "done"
    /\ UNCHANGED <<frame, op, wifKey, wifFlags, wifStr, b58Vars, hexVars, cipherVars, spiralVars, vicVars>>

\* asciiToHex(hexText)
AsciiToHex ==
    /\ pc = "start" /\ op = "hexRoundTrip"
    /\ hexStr' = asciiToHex(hexText)
    /\ pc' = "encoded"
    /\ UNCHANGED <<frame, op, hexText, hexOut, b58Vars, wifVars, cipherVars, spiralVars, vicVars>>

\* hexToAscii(hexStr)
HexToAscii ==
    /\ pc = "encoded" /\ op = "hexRoundTrip"
    /\ hexOut' = hexToAscii(hexStr)
    /\ pc' = "done"
    /\ UNCHANGED <<frame, op, hexText, hexStr, b58Vars, wifVars, cipherVars, spiralVars, vicVars>>

NextCodec ==
    \/ Base58Encode \/ Base58Decode
    \/ PrivateKeyToWIF \/ WifToPrivateKey
    \/ AsciiToHex \/ HexToAscii

SpecCodec == InitCodec /\ [][NextCodec]_vars

(***************************************************************************)
(* The cipher specification: a text and a key go through decryptBeaufort   *)
(* twice, or through vigenereCipher encrypting and then decrypting.        *)
(***************************************************************************)
\* Text characters tried: 'A', 'Z', 'b', ' ', and dotless i (U+0131), which is
\* no ASCII letter but whose upper case is "I".
CipherChars == {65, 90, 98, 32, 305}
\* Key characters tried: 'K', 'b', '1'.
KeyChars == {75, 98, 49}

InitCipher ==
    /\ FrameIdle
    /\ pc = "start"
    /\ op \in {"beaufort", "vigenere"}
    /\ cText \in SeqsUpTo(CipherChars, MaxCipherText)
    /\ cKey \in SeqsUpTo(KeyChars, MaxKey)
    /\ cMid = <<>> /\ cOut = <<>>
    /\ CodecIdle /\ SpiralIdle /\ VicIdle

\* decryptBeaufort(cText, cKey)
BeaufortFirst ==
    /\ pc = "start" /\ op = "beaufort"
    /\ cMid' = decryptBeaufort(cText, cKey)
    /\ pc' = "encoded"
    /\ UNCHANGED <<frame, op, cText, cKey, cOut, codecVars, spiralVars, vicVars>>

\* decryptBeaufort(cMid, cKey)
BeaufortSecond ==
    /\ pc = "encoded" /\ op = "beaufort"
    /\ cOut' = decryptBeaufort(cMid, cKey)
    /\ pc' = "done"
    /\ UNCHANGED <<frame, op, cText, cKey, cMid, codecVars, spiralVars, vicVars>>

\* vigenereCipher(cText, cKey, false)
VigenereEncrypt ==
    /\ pc = "start" /\ op = "vigenere"
    /\ cMid' = vigenereCipher(cText, cKey, FALSE)
    /\ pc' = "encoded"
    /\ UNCHANGED <<frame, op, cText, cKey, cOut, codecVars, spiralVars, vicVars>>

\* vigenereCipher(cMid, cKey, true)
VigenereDecrypt ==
    /\ pc = "encoded" /\ op = "vigenere"
    /\ cOut' = vigenereCipher(cMid, cKey, TRUE)
    /\ pc' = "done"
    /\ UNCHANGED <<frame, op, cText, cKey, cMid, codecVars, spiralVars, vicVars>>

NextCipher == BeaufortFirst \/ BeaufortSecond \/ VigenereEncrypt \/ VigenereDecrypt

SpecCipher == InitCipher /\ [][NextCipher]_vars

(***************************************************************************)
(* The matrix specification: readSpiralMatrix runs on a matrix whose cell  *)
(* (i, j) holds the number i * cols + j + 1, so that every cell is told    *)
(* from every other; one action per pass of the while loop.                *)
(***************************************************************************)
NumberedMatrix(rows, cols) == [i \in 1..rows |-> [j \in 1..cols |-> (i - 1) * cols + j]]

InitMatrix ==
    /\ FrameIdle
    /\ pc = "start"
    /\ op = "readSpiralMatrix"
    /\ matrix \in {<<>>} \cup {NumberedMatrix(r, c) : r \in 1..MaxDim, c \in 1..MaxDim}
    /\ counterClockwise \in BOOLEAN
    /\ result = <<>>
    /\ top = 0 /\ bottom = 0 /\ left = 0 /\ right = 0
    /\ CodecIdle /\ CipherIdle /\ VicIdle

\* if (matrix.length === 0) return ""; otherwise the bounding box is set up.
SpiralStart ==
    /\ pc = "start"
    /\ \/ /\ Len(matrix) = 0
          /\ pc' = "done"
          /\ UNCHANGED <<frame, top, bottom, left, right>>
       \/ /\ Len(matrix) # 0
          /\ top' = 0 /\ bottom' = Len(matrix) - 1
          /\ left' = 0 /\ right' = Len(matrix[1]) - 1
          /\ pc' = "loop"
    /\ UNCHANGED <<frame, op, matrix, counterClockwise, result, codecVars, cipherVars, vicVars>>

Box == [top |-> top, bottom |-> bottom, left |-> left, right |-> right]

\* One pass of  while (top <= bottom && left <= right) { ... }
SpiralPass ==
    /\ pc = "loop"
    /\ top <= bottom /\ left <= right
    /\ LET b == IF counterClockwise THEN SpiralBodyCCW(matrix, Box, result)
                ELSE SpiralBodyCW(matrix, Box, result)
       IN  /\ top' = b.top /\ bottom' = b.bottom
           /\ left' = b.left /\ right' = b.right
           /\ result' = b.result
    /\ UNCHANGED <<frame, pc, op, matrix, counterClockwise, codecVars, cipherVars, vicVars>>

\* The loop's test fails: return result.join("")
SpiralReturn ==
    /\ pc = "loop"
    /\ ~(top <= bottom /\ left <= right)
    /\ pc' = "done"
    /\ UNCHANGED <<frame, op, spiralVars, codecVars, cipherVars, vicVars>>

NextMatrix == SpiralStart \/ SpiralPass \/ SpiralReturn

\* The call is sequential code: a pass that can run does run.
SpecMatrix == InitMatrix /\ [][NextMatrix]_vars /\ WF_vars(NextMatrix)

(***************************************************************************)
(* The VIC specification: decryptVIC builds its checkerboard, then scans   *)
(* the digits, one action per pass of the while loop.                      *)
(***************************************************************************)
\* "FUBCDORALETHINGKYMVPSJQZXW"
PuzzleAlphabet ==
    <<70, 85, 66, 67, 68, 79, 82, 65, 76, 69, 84, 72, 73, 78, 71, 75, 89, 77, 86,
      80, 83, 74, 81, 90, 88, 87>>
\* Alphabets tried: the puzzle's 26 letters, the empty one, "ab", and one of
\* 30 symbols (more than the checkerboard holds).
VicAlphabets == {PuzzleAlphabet, <<>>, <<97, 98>>, alphabet \o <<43, 45, 42, 47>>}
\* Characters of numbers tried: '0', '1', '4', ' ', 'x'.
NumberChars == {48, 49, 52, 32, 120}

InitVic ==
    /\ FrameIdle
    /\ pc = "start"
    /\ op = "decryptVIC"
    /\ numbers \in SeqsUpTo(NumberChars, MaxNumbers)
    /\ vicAlphabet \in VicAlphabets
    /\ digitRow1 \in {0, 1}
    /\ digitRow2 \in {1, 4}
    /\ vicDigits = <<>> /\ charMap = EmptyMap /\ vicI = 0 /\ vicResult = <<>>
    /\ vicOut = <<>>
    /\ CodecIdle /\ CipherIdle /\ SpiralIdle

\* Lines 115-155: clean the inputs, build the checkerboard, start the scan.
VicBuild ==
    /\ pc = "start"
    /\ vicDigits' = StripSpace(numbers)
    /\ charMap' = BuildCharMap(StringToUpperCase(vicAlphabet), digitRow1, digitRow2)
    /\ vicResult' = <<>>
    /\ vicI' = 0
    /\ pc' = "scan"
    /\ UNCHANGED <<frame, op, numbers, vicAlphabet, digitRow1, digitRow2, vicOut,
                   codecVars, cipherVars, spiralVars>>

\* vicDigits[i] is an escape digit
AtEscape ==
    LET singleDigit == <<vicDigits[vicI + 1]>>
    IN  singleDigit = String(digitRow1) \/ singleDigit = String(digitRow2)

\* The two-digit pass with the index advanced by one only.
VicTwoDigitByOne ==
    /\ pc = "scan" /\ vicI < Len(vicDigits)
    /\ AtEscape /\ vicI + 1 < Len(vicDigits)
    /\ vicResult' = vicResult \o MapGet(charMap, SubSeq(vicDigits, vicI + 1, vicI + 2))
    /\ vicI' = vicI + 1
    /\ UNCHANGED <<frame, pc, op, numbers, vicAlphabet, digitRow1, digitRow2, vicDigits, charMap,
                   vicOut, codecVars, cipherVars, spiralVars>>

\* A pass at an escape digit that has a next character: the two are looked
\* up as one code, i += 2.
VicTwoDigit ==
    /\ pc = "scan" /\ vicI < Len(vicDigits)
    /\ AtEscape /\ vicI + 1 < Len(vicDigits)
    /\ vicResult' = vicResult \o MapGet(charMap, SubSeq(vicDigits, vicI + 1, vicI + 2))
    /\ vicI' = vicI + 2
    /\ UNCHANGED <<frame, pc, op, numbers, vicAlphabet, digitRow1, digitRow2, vicDigits, charMap,
                   vicOut, codecVars, cipherVars, spiralVars>>

\* A pass at an escape digit that is the last character: i++
VicLoneEscape ==
    /\ pc = "scan" /\ vicI < Len(vicDigits)
    /\ AtEscape /\ ~(vicI + 1 < Len(vicDigits))
    /\ vicI' = vicI + 1
    /\ UNCHANGED <<frame, pc, op, numbers, vicAlphabet, digitRow1, digitRow2, vicDigits, charMap,
                   vicResult, vicOut, codecVars, cipherVars, spiralVars>>

\* A pass at any other character: it is looked up alone, i++
VicOneDigit ==
    /\ pc = "scan" /\ vicI < Len(vicDigits)
    /\ ~AtEscape
    /\ vicResult' = vicResult \o MapGet(charMap, <<vicDigits[vicI + 1]>>)
    /\ vicI' = vicI + 1
    /\ UNCHANGED <<frame, pc, op, numbers, vicAlphabet, digitRow1, digitRow2, vicDigits, charMap,
                   vicOut, codecVars, cipherVars, spiralVars>>

\* The loop's test fails: return result || "Unable to decode. ..."
VicReturn ==
    /\ pc = "scan" /\ ~(vicI < Len(vicDigits))
    /\ vicOut' = IF vicResult # <<>> THEN vicResult ELSE UnableToDecode
    /\ pc' = "done"
    /\ UNCHANGED <<frame, op, numbers, vicAlphabet, digitRow1, digitRow2, vicDigits, charMap,
                   vicI, vicResult, codecVars, cipherVars, spiralVars>>

NextVic == VicBuild \/ VicTwoDigit \/ VicLoneEscape \/ VicOneDigit \/ VicReturn

\* The call is sequential code: a pass that can run does run.
SpecVic == InitVic /\ [][NextVic]_vars /\ WF_vars(NextVic)

(***************************************************************************)
(* Properties of the codec specification.                                  *)
(***************************************************************************)
\* A character outside the 58-symbol alphabet.
OutsideAlphabet(ch) == \A j \in 1..Len(BASE58_ALPHABET) : BASE58_ALPHABET[j] # ch

\* C1: base58Decode(base58Encode(b)) returns exactly b, for every byte
\* sequence b (the empty one, all-zero ones and ones with leading zero bytes
\* included).
C1_Base58RoundTrip ==
    (op = "base58RoundTrip" /\ pc = "done") => (b58Out.ok /\ b58Out.bytes = b58In)

\* C2: wifToPrivateKey(privateKeyToWIF(k, compressed, mainnet)) succeeds and
\* returns the key and the flags that were encoded.
C2_WifRoundTrip ==
    (op = "wifRoundTrip" /\ pc = "done") =>
        /\ wifOut.ok
        /\ wifOut.privateKey = wifKey
        /\ wifOut.compressed = wifFlags.compressed
        /\ wifOut.mainnet = wifFlags.mainnet

\* C3: base58Encode(b) has as many leading '1' characters as b has leading
\* zero bytes, and base58Decode(s) has as many leading zero bytes as s has
\* leading '1' characters.
C3_LeadingZerosAreLeadingOnes ==
    /\ (op = "base58RoundTrip" /\ pc = "encoded") =>
           LeadingCount(b58Str, 49) = LeadingCount(b58In, 0)
    /\ (op = "base58Decode" /\ pc = "done" /\ b58Out.ok) =>
           LeadingCount(b58Out.bytes, 0) = LeadingCount(b58Str, 49)

\* C4: base58Decode(s) throws the invalid-character error and returns no
\* bytes whenever s holds a character outside the alphabet, at any position;
\* base58Decode("0") throws.
C4_InvalidCharacterRejected ==
    (op = "base58Decode" /\ pc = "done") =>
        /\ (\E i \in 1..Len(b58Str) : OutsideAlphabet(b58Str[i])) =>
               (~b58Out.ok /\ b58Out.error = "Invalid Base58 character"
                /\ b58Out.bytes = <<>>)
        /\ b58Str = <<48>> => ~b58Out.ok

\* C4's case: a string whose only foreign character is its last one has been
\* decoded, and the call threw.
C4_Witness ==
    /\ op = "base58Decode" /\ pc = "done"
    /\ Len(b58Str) = 3
    /\ ~OutsideAlphabet(b58Str[1]) /\ ~OutsideAlphabet(b58Str[2])
    /\ OutsideAlphabet(b58Str[3])
    /\ ~b58Out.ok

\* C5: hexToAscii(asciiToHex(t)) = t for every printable ASCII text t of
\* length 0 upward.
C5_HexAsciiRoundTrip ==
    (op = "hexRoundTrip" /\ pc = "done") => hexOut = hexText

(***************************************************************************)
(* Properties of the cipher specification.                                 *)
(***************************************************************************)
IsAsciiLetter(ch) == ch \in (65..90) \cup (97..122)
AllAsciiLetters(s) == \A i \in 1..Len(s) : IsAsciiLetter(s[i])
HasAsciiLetter(s) == \E i \in 1..Len(s) : IsAsciiLetter(s[i])

\* C6: decryptBeaufort(decryptBeaufort(x, k), k) = x for every text x of ASCII
\* letters of either case and every key k with at least one letter.
C6_BeaufortSelfInverse ==
    (op = "beaufort" /\ pc = "done" /\ AllAsciiLetters(cText) /\ HasAsciiLetter(cKey))
        => cOut = cText

\* C6's case: a three-letter text of both cases went through a key of a
\* letter and a non-letter, was changed by the first call and restored by
\* the second.
C6_Witness ==
    /\ op = "beaufort" /\ pc = "done"
    /\ Len(cText) = 3 /\ AllAsciiLetters(cText)
    /\ \E i, j \in 1..3 : cText[i] \in 65..90 /\ cText[j] \in 97..122
    /\ HasAsciiLetter(cKey) /\ ~AllAsciiLetters(cKey)
    /\ cMid # cText /\ cOut = cText

\* C7: vigenereCipher(vigenereCipher(x, k, false), k, true) = x for every text
\* x and every key k with at least one letter.
C7_VigenereInverse ==
    (op = "vigenere" /\ pc = "done" /\ HasAsciiLetter(cKey)) => cOut = cText

(***************************************************************************)
(* Properties of the matrix specification.                                 *)
(***************************************************************************)
Rows == Len(matrix)
Cols == IF matrix = <<>> THEN 0 ELSE Len(matrix[1])
Min(a, b) == IF a < b THEN a ELSE b

\* Ring k (k = 0 is the outermost) spans rows k..Rows-1-k and columns
\* k..Cols-1-k.  Clockwise: its top row left to right, the rest of its right
\* column downward, then, if it has more than one row, the rest of its bottom
\* row right to left, and, if it has more than one column, the rest of its
\* left column upward.
RingCW(k) ==
    LET t == k  b == Rows - 1 - k  l == k  r == Cols - 1 - k
    IN  RowCells(matrix, t, Up(l, r))
        \o ColumnCells(matrix, Up(t + 1, b), r)
        \o (IF b > t THEN RowCells(matrix, b, Down(r - 1, l)) ELSE <<>>)
        \o (IF r > l THEN ColumnCells(matrix, Down(b - 1, t + 1), l) ELSE <<>>)

\* Counter-clockwise: its left column downward, the rest of its bottom row
\* left to right, then, if it has more than one column, the rest of its
\* right column upward, and, if it has more than one row, the rest of its top
\* row right to left.
RingCCW(k) ==
    LET t == k  b == Rows - 1 - k  l == k  r == Cols - 1 - k
    IN  ColumnCells(matrix, Up(t, b), l)
        \o RowCells(matrix, b, Up(l + 1, r))
        \o (IF r > l THEN ColumnCells(matrix, Down(b - 1, t), r) ELSE <<>>)
        \o (IF b > t THEN RowCells(matrix, t, Down(r - 1, l + 1)) ELSE <<>>)

\* The rings from the outermost inward, one after the other.
RECURSIVE RingsFrom(_, _)
RingsFrom(k, ccw) ==
    IF 2 * k >= Min(Rows, Cols) THEN <<>>
    ELSE (IF ccw THEN RingCCW(k) ELSE RingCW(k)) \o RingsFrom(k + 1, ccw)

SpiralResultRight ==
    (op = "readSpiralMatrix" /\ pc = "done" /\ Rows >= 1) =>
        /\ result = RingsFrom(0, counterClockwise)
        /\ Len(result) = Rows * Cols
        /\ \A i \in 0..(Rows - 1), j \in 0..(Cols - 1) :
               Cardinality({k \in 1..Len(result) : result[k] = At(matrix, i, j)}) = 1
        /\ (Rows = 3 /\ Cols = 3) =>
               result = IF counterClockwise THEN <<1, 4, 7, 8, 9, 6, 3, 2, 5>>
                        ELSE <<1, 2, 3, 6, 9, 8, 7, 4, 5>>

\* C8: for every matrix of R >= 1 rows and C >= 1 columns readSpiralMatrix
\* lists the cells ring by ring in the stated order of sides, each cell
\* exactly once (R*C entries; 1,2,3,6,9,8,7,4,5 and 1,4,7,8,9,6,3,2,5 for the
\* 3x3 matrix 1..9), and its loop terminates.
C8_SpiralOrder == [](SpiralResultRight) /\ <>(pc = "done")

\* C8's case: a single-row matrix of several columns has been read
\* clockwise to the end.
C8_Witness ==
    /\ op = "readSpiralMatrix" /\ pc = "done"
    /\ Rows = 1 /\ Cols = MaxDim /\ ~counterClockwise
    /\ Len(result) = Cols

(***************************************************************************)
(* Properties of the VIC specification.                                    *)
(***************************************************************************)
\* The symbols the checkerboard is filled from.
CleanAlphabet == StringToUpperCase(vicAlphabet)

\* The p-th (p = 1..8) of the single digits other than the escape digits, in
\* ascending order.
NthSingle(p) ==
    LET D == (0..9) \ {digitRow1, digitRow2}
    IN  CHOOSE d \in D : Cardinality({x \in D : x < d}) = p - 1

\* The code of alphabet position p (p = 1..28).
CodeOf(p) ==
    IF p <= 8 THEN <<48 + NthSingle(p)>>
    ELSE IF p <= 18 THEN <<48 + digitRow1, 48 + (p - 9)>>
    ELSE <<48 + digitRow2, 48 + (p - 19)>>

\* The layout of the checkerboard over the symbols syms: the first 8 symbols
\* at the 8 single digits other than the escape digits in ascending order,
\* the next 10 at the codes digitRow1 0..9, the following (at most 10) at the
\* codes digitRow2 0..9, no code given twice, and for the puzzle's alphabet
\* with escape digits 1 and 4 the code 0 is F.
LaidOut(syms) ==
    LET n    == Min(Len(syms), 28)
        code == [p \in 1..n |-> CodeOf(p)]
    IN  /\ DOMAIN charMap = {code[p] : p \in 1..n}
        /\ \A p \in 1..n : charMap[code[p]] = syms[p]
        /\ \A p, q \in 1..n : p # q => code[p] # code[q]
        /\ (vicAlphabet = PuzzleAlphabet /\ digitRow1 = 1 /\ digitRow2 = 4) =>
               charMap[<<48>>] = 70

\* C9 as stated: for two different escape digits the checkerboard gives the
\* first 8 symbols of the alphabet argument the 8 other single digits in
\* ascending order, the next 10 the codes digitRow1 0..9, the following (at
\* most 10) the codes digitRow2 0..9; no code is given twice; with the
\* puzzle's alphabet and escape digits 1 and 4 the code 0 is F.
C9_AlphabetAsGiven ==
    (op = "decryptVIC" /\ pc # "start" /\ digitRow1 # digitRow2) => LaidOut(vicAlphabet)

\* C9, amended: the symbols laid out are those of alphabet.toUpperCase(), in
\* its order; the rest is as stated.
C9_Checkerboard ==
    (op = "decryptVIC" /\ pc # "start" /\ digitRow1 # digitRow2) => LaidOut(CleanAlphabet)

\* C9's case: the alphabet "ab" with escape digits 1 and 4 has been laid out:
\* the codes 0 and 2 hold A and B.
C9_Witness ==
    /\ op = "decryptVIC" /\ pc = "scan"
    /\ vicAlphabet = <<97, 98>> /\ digitRow1 = 1 /\ digitRow2 = 4
    /\ DOMAIN charMap = {<<48>>, <<50>>}
    /\ charMap[<<48>>] = 65 /\ charMap[<<50>>] = 66

\* The symbols of the codes of d[k..], read as the claim says: an escape
\* digit takes the next character with it, any other character stands alone,
\* a code outside the table and a lone last escape digit give nothing.
RECURSIVE Decoded(_, _)
Decoded(d, k) ==
    IF k > Len(d) THEN <<>>
    ELSE IF d[k] \in {48 + digitRow1, 48 + digitRow2}
         THEN IF k < Len(d)
              THEN (IF <<d[k], d[k + 1]>> \in DOMAIN charMap
                    THEN <<charMap[<<d[k], d[k + 1]>>]>> ELSE <<>>) \o Decoded(d, k + 2)
              ELSE <<>>
         ELSE (IF <<d[k]>> \in DOMAIN charMap THEN <<charMap[<<d[k]>>]>> ELSE <<>>)
              \o Decoded(d, k + 1)

VicOutputRight ==
    (op = "decryptVIC" /\ pc = "done") =>
        LET expected == Decoded(SelectSeq(numbers, LAMBDA ch : ~IsSpace(ch)), 1)
        IN  vicOut = IF expected = <<>> THEN UnableToDecode ELSE expected

\* The scan never stops short of the end: while it runs a pass can be made,
\* i stays within the input, and every pass moves i forward.
VicScanBounded == (op = "decryptVIC" /\ pc = "scan") => (vicI <= Len(vicDigits) /\ ENABLED NextVic)
VicPassAdvances == (pc = "scan" /\ pc' = "scan") => vicI' > vicI

\* C10: decryptVIC reads the whitespace-stripped input left to right, an
\* escape digit together with the next character, any other character alone;
\* its output is the concatenation of the symbols of the codes found in the
\* table, the sentinel exactly when that is empty; the scan terminates (its
\* index rises at every pass and is bounded by the input's length).
C10_VicScan == [](VicOutputRight /\ VicScanBounded) /\ [][VicPassAdvances]_vars

\* C10's case: "101" with escape digit 1 has been scanned to the end: the code
\* 10 gave its symbol and the lone last 1 gave nothing.
C10_Witness ==
    /\ op = "decryptVIC" /\ pc = "done"
    /\ vicDigits = <<49, 48, 49>> /\ digitRow1 = 1 /\ digitRow2 = 4
    /\ vicAlphabet = PuzzleAlphabet
    /\ vicOut = <<76>>

(***************************************************************************)
(* Symmetric decryption module (src/lib/crypto-utils.ts).  MD5 and the     *)
(* AES-256-CBC decipher are the library's: the model stands in a mixing    *)
(* function for the hash and, for the cipher, a keyed byte-wise            *)
(* permutation chained block to block as CBC chains, with PKCS#7 padding   *)
(* removed and checked as the library does.                                *)
(***************************************************************************)
\* The UTF-8 bytes of a string (code units below 0x800 and the rest of the
\* basic plane; no surrogate pairs).
Utf8Bytes(str) ==
    ForRange(LAMBDA k, b :
                 IF str[k] < 128 THEN Append(b, str[k])
                 ELSE IF str[k] < 2048
                      THEN b \o <<192 + (str[k] \div 64), 128 + (str[k] % 64)>>
                      ELSE b \o <<224 + (str[k] \div 4096), 128 + ((str[k] \div 64) % 64),
                                  128 + (str[k] % 64)>>,
             1, Len(str), <<>>)

\* Buffer.prototype.toString("utf8") for Buffers of ASCII bytes and of bytes
\* that start no valid sequence (0x80..0xBF alone, 0xF8..0xFF): each of the
\* latter becomes U+FFFD.
Utf8ToString(buffer) == [k \in 1..Len(buffer) |-> IF buffer[k] < 128 THEN buffer[k] ELSE 65533]

\* The value of a Base64 character, -1 for a character outside the alphabet
\* (the URL-safe '-' and '_' are read as '+' and '/').
Base64Val(ch) ==
    IF ch \in 65..90 THEN ch - 65
    ELSE IF ch \in 97..122 THEN ch - 71
    ELSE IF ch \in 48..57 THEN ch + 4
    ELSE IF ch \in {43, 45} THEN 62
    ELSE IF ch \in {47, 95} THEN 63
    ELSE -1

\* Buffer.from(str, "base64"): the input ends at the first '=', characters
\* outside the alphabet are skipped, four characters give three bytes, a
\* rest of two or three characters gives one or two bytes.
BufferFromBase64(str) ==
    LET stop == IF \E k \in 1..Len(str) : str[k] = 61
                THEN (CHOOSE k \in 1..Len(str) :
                          str[k] = 61 /\ \A m \in 1..(k - 1) : str[m] # 61) - 1
                ELSE Len(str)
        vals == SelectSeq([k \in 1..stop |-> Base64Val(str[k])], LAMBDA v : v # -1)
        n    == (Len(vals) \div 4) * 3
                + (IF Len(vals) % 4 = 0 THEN 0 ELSE (Len(vals) % 4) - 1)
        v(k) == IF k <= Len(vals) THEN vals[k] ELSE 0
        byte(i) == LET g == 4 * ((i - 1) \div 3) + 1
                       r == (i - 1) % 3
                   IN  IF r = 0 THEN v(g) * 4 + (v(g + 1) \div 16)
                       ELSE IF r = 1 THEN (v(g + 1) % 16) * 16 + (v(g + 2) \div 4)
                       ELSE (v(g + 2) % 4) * 64 + v(g + 3)
    IN  [i \in 1..n |-> byte(i)]

\* crypto.createHash("md5").update(buffer).digest(): 16 bytes
md5(buffer) == [j \in 1..16 |-> Mix(buffer, 11 * j + Len(buffer)) % 256]

\* The round key byte the stand-in cipher uses at offset o of a block.
AesKeyByte(key, o) == key[o + 1] + 3 * key[o + 17]

\* decipher.update(ciphertext) followed by decipher.final() for
\* crypto.createDecipheriv("aes-256-cbc", key, iv): [ok, error, bytes].
AesDecipher(key, iv, ciphertext) ==
    IF Len(ciphertext) = 0 \/ Len(ciphertext) % 16 # 0
    THEN [ok |-> FALSE, error |-> "wrong final block length", bytes |-> <<>>]
    ELSE LET n == Len(ciphertext)
             padded == [i \in 1..n |->
                           LET o    == (i - 1) % 16
                               prev == IF i <= 16 THEN iv[o + 1] ELSE ciphertext[i - 16]
                           IN  (ciphertext[i] - AesKeyByte(key, o) - prev + 2048) % 256]
             pad == padded[n]
         IN  IF pad \in 1..16 /\ \A i \in (n - pad + 1)..n : padded[i] = pad
             THEN [ok |-> TRUE, error |-> "", bytes |-> SubSeq(padded, 1, n - pad)]
             ELSE [ok |-> FALSE, error |-> "bad decrypt", bytes |-> <<>>]

\* One round of evpBytesToKey's loop; st is [digest, md5Hashes, totalLen].
EvpRound(password, salt, st) ==
    LET data   == st.digest \o password \o salt
        digest == md5(data)
    IN  [digest |-> digest, md5Hashes |-> st.md5Hashes \o digest,
         totalLen |-> st.totalLen + Len(digest)]

\* while (totalLen < keyLen + ivLen) { ... }
RECURSIVE EvpLoop(_, _, _, _)
EvpLoop(password, salt, need, st) ==
    IF st.totalLen < need THEN EvpLoop(password, salt, need, EvpRound(password, salt, st))
    ELSE st

\* evpBytesToKey(password, salt, keyLen, ivLen)
evpBytesToKey(password, salt, keyLen, ivLen) ==
    LET combined == EvpLoop(password, salt, keyLen + ivLen,
                            [digest |-> <<>>, md5Hashes |-> <<>>, totalLen |-> 0]).md5Hashes
    IN  [key |-> Subarray(combined, 0, keyLen),
         iv  |-> Subarray(combined, keyLen, keyLen + ivLen)]

\* /^[a-fA-F0-9]+$/.test(str)
IsHexString(str) == str # <<>> /\ \A k \in 1..Len(str) : HexVal(str[k]) # -1

\* The key material with the test for 64 hexadecimal digits left out.
KeyMaterialAlwaysHashed(password) == sha256(Utf8Bytes(password))

\* Lines 9-14: the key material of a password.
KeyMaterial(password) ==
    IF Len(password) = 64 /\ IsHexString(password) THEN BufferFromHex(password)
    ELSE sha256(Utf8Bytes(password))

\* "Salted__"
SaltedHeader == <<83, 97, 108, 116, 101, 100, 95, 95>>

\* Lines 17-32: the salt and the ciphertext of the decoded input.
ParseSalted(encrypted) ==
    LET encryptedBuffer == BufferFromBase64(encrypted)
        saltedHeader    == Utf8ToString(Subarray(encryptedBuffer, 0, 8))
    IN  IF saltedHeader = SaltedHeader
        THEN [salt |-> Subarray(encryptedBuffer, 8, 16),
              ciphertext |-> Subarray(encryptedBuffer, 16, Len(encryptedBuffer))]
        ELSE [salt |-> Repeat(0, 8), ciphertext |-> encryptedBuffer]

\* "AES-256-CBC Decryption Error: "
AesErrorTag ==
    <<65, 69, 83, 45, 50, 53, 54, 45, 67, 66, 67, 32, 68, 101, 99, 114, 121, 112,
      116, 105, 111, 110, 32, 69, 114, 114, 111, 114, 58, 32>>

\* The text of a library error: its characters stand for the message.
ErrorMessage(error) ==
    IF error = "bad decrypt" THEN <<98, 97, 100, 32, 100, 101, 99, 114, 121, 112, 116>>
    ELSE <<119, 114, 111, 110, 103, 32, 102, 105, 110, 97, 108, 32, 98, 108, 111, 99,
           107, 32, 108, 101, 110, 103, 116, 104>>

(***************************************************************************)
(* OpenSSL's  enc -aes-256-cbc -a -md md5 : the producer of the inputs     *)
(* decryptAES256CBC is meant for.  It derives key and IV from the          *)
(* password's own bytes and the salt, encrypts the padded plaintext, and   *)
(* writes "Salted__", the salt and the ciphertext in Base64.               *)
(***************************************************************************)
\* EVP_BytesToKey with MD5, one iteration: D1 = MD5(pass || salt),
\* Dn = MD5(D(n-1) || pass || salt); the key is D1 || D2, the IV is D3.
OpensslBytesToKey(pass, salt) ==
    LET D1 == md5(pass \o salt)
        D2 == md5(D1 \o pass \o salt)
        D3 == md5(D2 \o pass \o salt)
    IN  [key |-> D1 \o D2, iv |-> D3]

\* The encipher that AesDecipher undoes: PKCS#7 padding, then block after
\* block chained on the previous ciphertext block.
AesEncipher(key, iv, plain) ==
    LET pad    == 16 - (Len(plain) % 16)
        padded == plain \o Repeat(pad, pad)
        n      == Len(padded)
        c[i \in 1..n] ==
            LET o    == (i - 1) % 16
                prev == IF i <= 16 THEN iv[o + 1] ELSE c[i - 16]
            IN  (padded[i] + prev + AesKeyByte(key, o)) % 256
    IN  [i \in 1..n |-> c[i]]

\* "ABCDEFGHIJKLMNOPQRSTUVWXYZabcdefghijklmnopqrstuvwxyz0123456789+/"
Base64Char(v) ==
    IF v < 26 THEN 65 + v
    ELSE IF v < 52 THEN 71 + v
    ELSE IF v < 62 THEN v - 4
    ELSE IF v = 62 THEN 43 ELSE 47

\* Base64 with '=' padding, a line feed after every 64 characters and at the
\* end.
Base64Lines(buffer) ==
    LET n  == Len(buffer)
        b(k) == IF k <= n THEN buffer[k] ELSE 0
        quad(g) == LET k == 3 * g + 1
                   IN  << Base64Char(b(k) \div 4),
                          Base64Char((b(k) % 4) * 16 + (b(k + 1) \div 16)),
                          IF k + 1 <= n THEN Base64Char((b(k + 1) % 16) * 4 + (b(k + 2) \div 64))
                          ELSE 61,
                          IF k + 2 <= n THEN Base64Char(b(k + 2) % 64) ELSE 61 >>
        chars == ForRange(LAMBDA g, s : s \o quad(g), 0, ((n + 2) \div 3) - 1, <<>>)
        lines == (Len(chars) + 63) \div 64
    IN  ForRange(LAMBDA l, s : s \o SubSeq(chars, 64 * l + 1,
                                           IF 64 * l + 64 < Len(chars) THEN 64 * l + 64
                                           ELSE Len(chars)) \o <<10>>,
                 0, lines - 1, <<>>)

\* The output of  openssl enc -aes-256-cbc -a -md md5 -pass pass:<password>
\* for the plaintext plain when the salt drawn is salt.
OpensslEnc(plain, password, salt) ==
    LET k == OpensslBytesToKey(Utf8Bytes(password), salt)
    IN  Base64Lines(SaltedHeader \o salt \o AesEncipher(k.key, k.iv, plain))

(***************************************************************************)
(* The decryption specification: decryptAES256CBC runs on what OpenSSL     *)
(* wrote for a plaintext and the same password, or on any other string;    *)
(* one action per stage of the function.                                   *)
(***************************************************************************)
MaxPlain == 2       \* longest plaintext encrypted

\* Passwords tried: "", "a", "pw", and one of 64 hexadecimal digits.
AesPasswords == {<<>>, <<97>>, <<112, 119>>, Repeat(97, 32) \o Repeat(49, 32)}
\* Salts tried.
AesSalts == {<<1, 2, 3, 4, 5, 6, 7, 8>>, Repeat(255, 8)}
\* Plaintext bytes tried: 'A' and a line feed.
PlainBytes == {65, 10}
\* Other inputs tried: "", "!!!" (no Base64 character), "QUJD" (three bytes),
\* "QUJDREVGR0hJSktMTU5PUA==" (16 unsalted bytes), and what OpenSSL wrote for
\* "A" cut after 30 and after 40 characters, "U2FsdGVkX18BAg==" (the header and
\* two bytes); and texts encrypted under the
\* key and IV of a password's key material, with and without the header.
MadeForKeyMaterial(plain, password, salt, salted) ==
    LET k == evpBytesToKey(KeyMaterial(password), salt, 32, 16)
        c == AesEncipher(k.key, k.iv, plain)
    IN  Base64Lines(IF salted THEN SaltedHeader \o salt \o c ELSE c)
AesOtherInputs ==
    { <<>>, <<33, 33, 33>>, <<81, 85, 74, 68>>,
      <<81, 85, 74, 68, 82, 69, 86, 71, 82, 48, 104, 74, 83, 107, 116, 77, 84, 85,
        53, 80, 85, 65, 61, 61>>,
      <<85, 50, 70, 115, 100, 71, 86, 107, 88, 49, 56, 66, 65, 103, 61, 61>> }
    \cup {SubSeq(OpensslEnc(<<65>>, <<112, 119>>, s), 1, k) : s \in AesSalts, k \in {30, 40}}
    \cup {MadeForKeyMaterial(<<65, 10>>, <<112, 119>>, s, TRUE) : s \in AesSalts}
    \cup {MadeForKeyMaterial(<<65>>, Repeat(97, 32) \o Repeat(49, 32), Repeat(0, 8), FALSE)}

AesFrame(encrypted, password, fromOpenssl, plain) ==
    [encrypted |-> encrypted, password |-> password,
     fromOpenssl |-> fromOpenssl, plain |-> plain,
     keyMaterial |-> <<>>, salt |-> <<>>, ciphertext |-> <<>>, key |-> <<>>, iv |-> <<>>,
     thrown |-> FALSE, out |-> <<>>]

ClassicIdle == CodecIdle /\ CipherIdle /\ SpiralIdle /\ VicIdle

InitAes ==
    /\ pc = "start"
    /\ op = "decryptAES256CBC"
    /\ ClassicIdle
    /\ \E password \in AesPasswords :
          \/ \E plain \in SeqsUpTo(PlainBytes, MaxPlain), salt \in AesSalts :
                 frame = AesFrame(OpensslEnc(plain, password, salt), password, TRUE, plain)
          \/ \E encrypted \in AesOtherInputs :
                 frame = AesFrame(encrypted, password, FALSE, <<>>)

\* Lines 9-14
AesKeyMaterial ==
    /\ op = "decryptAES256CBC" /\ pc = "start"
    /\ frame' = [frame EXCEPT !.keyMaterial = KeyMaterial(frame.password)]
    /\ pc' = "parse"
    /\ UNCHANGED <<op, classicVars>>

\* Lines 17-32
AesParse ==
    /\ op = "decryptAES256CBC" /\ pc = "parse"
    /\ LET s == ParseSalted(frame.encrypted)
       IN  frame' = [frame EXCEPT !.salt = s.salt, !.ciphertext = s.ciphertext]
    /\ pc' = "derive"
    /\ UNCHANGED <<op, classicVars>>

\* Line 35
AesDerive ==
    /\ op = "decryptAES256CBC" /\ pc = "derive"
    /\ LET k == evpBytesToKey(frame.keyMaterial, frame.salt, 32, 16)
       IN  frame' = [frame EXCEPT !.key = k.key, !.iv = k.iv]
    /\ pc' = "decipher"
    /\ UNCHANGED <<op, classicVars>>

\* Lines 37-41: the decipher succeeds and the plaintext is returned.
AesReturn ==
    /\ op = "decryptAES256CBC" /\ pc = "decipher"
    /\ LET d == AesDecipher(frame.key, frame.iv, frame.ciphertext)
       IN  /\ d.ok
           /\ frame' = [frame EXCEPT !.out = Utf8ToString(d.bytes)]
    /\ pc' = "done"
    /\ UNCHANGED <<op, classicVars>>

\* The decipher's error leaves the function uncaught.
AesThrow ==
    /\ op = "decryptAES256CBC" /\ pc = "decipher"
    /\ LET d == AesDecipher(frame.key, frame.iv, frame.ciphertext)
       IN  /\ ~d.ok
           /\ frame' = [frame EXCEPT !.thrown = TRUE]
    /\ pc' = "done"
    /\ UNCHANGED <<op, classicVars>>

\* Lines 42-45: the decipher throws, the catch returns the tagged message.
AesCatch ==
    /\ op = "decryptAES256CBC" /\ pc = "decipher"
    /\ LET d == AesDecipher(frame.key, frame.iv, frame.ciphertext)
       IN  /\ ~d.ok
           /\ frame' = [frame EXCEPT !.out = AesErrorTag \o ErrorMessage(d.error)]
    /\ pc' = "done"
    /\ UNCHANGED <<op, classicVars>>

NextAes == AesKeyMaterial \/ AesParse \/ AesDerive \/ AesReturn \/ AesCatch

SpecAes == InitAes /\ [][NextAes]_vars

(***************************************************************************)
(* Properties of the decryption specification.                             *)
(***************************************************************************)
AesDone == op = "decryptAES256CBC" /\ pc = "done"

\* C11: for every ciphertext OpenSSL produced from a plaintext with password
\* p, decryptAES256CBC(c, p) returns that plaintext, and the key and IV it
\* decrypts with are those OpenSSL's EVP_BytesToKey (MD5) derives from p and
\* the salt in c.
C11_OpensslCompatible ==
    (AesDone /\ frame.fromOpenssl) =>
        /\ frame.out = Utf8ToString(frame.plain)
        /\ LET k == OpensslBytesToKey(Utf8Bytes(frame.password), frame.salt)
           IN  frame.key = k.key /\ frame.iv = k.iv

\* The tagged error value begins the string s.
ErrorTagged(s) == Len(s) >= Len(AesErrorTag) /\ SubSeq(s, 1, Len(AesErrorTag)) = AesErrorTag

\* C12: decryptAES256CBC never throws, and whenever the decryption fails the
\* string returned begins 'AES-256-CBC Decryption Error:'.
C12_ErrorsAreValues ==
    /\ op = "decryptAES256CBC" => ~frame.thrown
    /\ (AesDone /\ ~AesDecipher(frame.key, frame.iv, frame.ciphertext).ok) =>
           ErrorTagged(frame.out)

\* C12's case: a ciphertext cut short of a whole block has gone through the
\* call and come back as the tagged error value.
C12_Witness ==
    /\ AesDone /\ ~frame.fromOpenssl
    /\ Len(frame.ciphertext) % 16 # 0
    /\ ~frame.thrown /\ ErrorTagged(frame.out)

(***************************************************************************)
(* Private-key parsing (src/lib/web-scraper.ts).  A BigInt is kept as the  *)
(* sequence of its hexadecimal digits, least significant first, without    *)
(* leading zeros (the empty sequence is 0).                                *)
(***************************************************************************)
\* String.prototype.trim
Trim(str) ==
    IF \A k \in 1..Len(str) : IsSpace(str[k]) THEN <<>>
    ELSE LET first == CHOOSE k \in 1..Len(str) :
                          ~IsSpace(str[k]) /\ \A m \in 1..(k - 1) : IsSpace(str[m])
             last  == CHOOSE k \in 1..Len(str) :
                          ~IsSpace(str[k]) /\ \A m \in (k + 1)..Len(str) : IsSpace(str[m])
         IN  SubSeq(str, first, last)

\* String.prototype.toLowerCase for the strings met here (ASCII)
StringToLowerCase(str) == [k \in 1..Len(str) |-> ToLowerCase(str[k])]

\* The padding that is left out.
PadStart64None(str) == str

\* String.prototype.padStart(64, "0")
PadStart64(str) == IF Len(str) < 64 THEN Repeat(48, 64 - Len(str)) \o str ELSE str

\* /^[a-fA-F0-9]{64}$/
IsHex64(str) == Len(str) = 64 /\ \A k \in 1..64 : HexVal(str[k]) # -1

\* /^[5KL][1-9A-HJ-NP-Za-km-z]{50,51}$/
LooksLikeWif(str) ==
    /\ Len(str) \in {51, 52}
    /\ str[1] \in {53, 75, 76}
    /\ \A k \in 2..Len(str) : IndexOf(BASE58_ALPHABET, str[k]) # -1

\* /^\d+$/
IsDigits(str) == str # <<>> /\ \A k \in 1..Len(str) : str[k] \in 48..57

\* /^[01]+$/
IsBits(str) == str # <<>> /\ \A k \in 1..Len(str) : str[k] \in {48, 49}

\* /^0x[a-fA-F0-9]{1,64}$/
Is0xHex(str) ==
    /\ Len(str) \in 3..66
    /\ str[1] = 48 /\ str[2] = 120
    /\ \A k \in 3..Len(str) : HexVal(str[k]) # -1

\* bn * 10 + digit
BigTimes10Plus(bn, digit) ==
    LET st == ForRange(LAMBDA i, s :
                           LET n == bn[i] * 10 + s.carry
                           IN  [out |-> Append(s.out, n % 16), carry |-> n \div 16],
                       1, Len(bn), [out |-> <<>>, carry |-> digit])
    IN  IF st.carry > 0 THEN Append(st.out, st.carry) ELSE st.out

\* BigInt(str) for a string of decimal digits
BigIntDecimal(str) ==
    ForRange(LAMBDA k, bn : BigTimes10Plus(bn, str[k] - 48), 1, Len(str), <<>>)

\* BigInt("0b" + str) for a string of bits
BigIntBinary(str) ==
    LET n      == Len(str)
        bit(j) == IF j < n THEN str[n - j] - 48 ELSE 0      \* bit j, from the right
        all    == [h \in 1..((n + 3) \div 4) |->
                      bit(4 * h - 4) + 2 * bit(4 * h - 3) + 4 * bit(4 * h - 2)
                      + 8 * bit(4 * h - 1)]
        len    == IF \A h \in 1..Len(all) : all[h] = 0 THEN 0
                  ELSE CHOOSE h \in 1..Len(all) :
                           all[h] # 0 /\ \A m \in (h + 1)..Len(all) : all[m] = 0
    IN  SubSeq(all, 1, len)

\* BigInt.prototype.toString(16)
BigToString16(bn) ==
    IF bn = <<>> THEN <<48>>
    ELSE [k \in 1..Len(bn) |-> HEX_DIGITS[bn[Len(bn) + 1 - k] + 1]]

\* The values parsePrivateKey returns; error is <<>> when the property is
\* absent.
KeyParsed(hex, format) == [privateKeyHex |-> hex, format |-> format, error |-> <<>>]
KeyUnknown(error) == [privateKeyHex |-> <<>>, format |-> "unknown", error |-> <<error>>]
\* Nothing returned yet.
NoKey == [privateKeyHex |-> <<>>, format |-> "none", error |-> <<>>]

(***************************************************************************)
(* The key-parsing specification: parsePrivateKey runs on one input, one   *)
(* action per format tried.                                                *)
(***************************************************************************)
MaxKeyText == 3     \* longest of the short inputs handed to parsePrivateKey

\* 2^256 - 1 in decimal
Decimal2p256m1 ==
    <<49, 49, 53, 55, 57, 50, 48, 56, 57, 50, 51, 55, 51, 49, 54, 49, 57,
      53, 52, 50, 51, 53, 55, 48, 57, 56, 53, 48, 48, 56, 54, 56, 55, 57,
      48, 55, 56, 53, 51, 50, 54, 57, 57, 56, 52, 54, 54, 53, 54, 52, 48,
      53, 54, 52, 48, 51, 57, 52, 53, 55, 53, 56, 52, 48, 48, 55, 57, 49,
      51, 49, 50, 57, 54, 51, 57, 57, 51, 53>>

\* 2^256 in decimal
Decimal2p256 ==
    <<49, 49, 53, 55, 57, 50, 48, 56, 57, 50, 51, 55, 51, 49, 54, 49, 57,
      53, 52, 50, 51, 53, 55, 48, 57, 56, 53, 48, 48, 56, 54, 56, 55, 57,
      48, 55, 56, 53, 51, 50, 54, 57, 57, 56, 52, 54, 54, 53, 54, 52, 48,
      53, 54, 52, 48, 51, 57, 52, 53, 55, 53, 56, 52, 48, 48, 55, 57, 49,
      51, 49, 50, 57, 54, 51, 57, 57, 51, 54>>

\* Characters of the short inputs: '0', '1', '9', 'a', 'x', ' '.
KeyTextChars == {48, 49, 57, 97, 120, 32}

\* The key 00...01 as 64 hexadecimal digits.
KeyOne == Repeat(48, 63) \o <<49>>

\* Inputs tried beside the short ones: 64 hexadecimal digits (lower case,
\* upper case inside white space, bits only); the WIF strings of the key
\* 00...01; "5" followed by fifty "1"; 2^256 - 1 and 2^256 in decimal; 78, 79,
\* 256 and 257 times "1"; 79 times "1" inside white space and behind "0";
\* "0x" before 1, 64 and 65 hexadecimal digits;
\* "0X1f"; full-width digits.
KeyInputs ==
    { Repeat(97, 32) \o Repeat(49, 32),
      <<32, 10>> \o Repeat(65, 32) \o Repeat(70, 32) \o <<9>>,
      Repeat(49, 32) \o Repeat(48, 32),
      privateKeyToWIF(KeyOne, TRUE, TRUE),
      privateKeyToWIF(KeyOne, FALSE, TRUE),
      privateKeyToWIF(KeyOne, TRUE, FALSE),
      <<53>> \o Repeat(49, 50),
      Decimal2p256m1, Decimal2p256,
      Repeat(49, 78), Repeat(49, 79), Repeat(49, 256), Repeat(49, 257),
      <<32>> \o Repeat(49, 79) \o <<10>>, <<48>> \o Repeat(49, 79),
      <<48, 120, 70>>, <<48, 120>> \o Repeat(70, 64), <<48, 120>> \o Repeat(70, 65),
      <<48, 88, 49, 102>>, <<65297, 65298>> }

KeyFrame(input) == [input |-> input, cleaned |-> <<>>, out |-> NoKey]

InitKey ==
    /\ pc = "start"
    /\ op = "parsePrivateKey"
    /\ ClassicIdle
    /\ \E input \in KeyInputs \cup SeqsUpTo(KeyTextChars, MaxKeyText) :
           frame = KeyFrame(input)

\* Lines 599-604: trim, try 64 hexadecimal digits.
KeyTryHex ==
    /\ op = "parsePrivateKey" /\ pc = "start"
    /\ LET cleaned == Trim(frame.input)
       IN  IF IsHex64(cleaned)
           THEN /\ frame' = [frame EXCEPT !.cleaned = cleaned,
                                          !.out = KeyParsed(StringToLowerCase(cleaned), "hex")]
                /\ pc' = "done"
           ELSE /\ frame' = [frame EXCEPT !.cleaned = cleaned]
                /\ pc' = "wif"
    /\ UNCHANGED <<op, classicVars>>

\* Lines 607-618: try WIF; an error of wifToPrivateKey ends the parse.
KeyTryWif ==
    /\ op = "parsePrivateKey" /\ pc = "wif"
    /\ IF LooksLikeWif(frame.cleaned)
       THEN LET w == wifToPrivateKey(frame.cleaned)
            IN  /\ frame' = [frame EXCEPT !.out =
                                 IF w.ok THEN KeyParsed(w.privateKey, "wif")
                                 ELSE KeyUnknown("Invalid WIF format")]
                /\ pc' = "done"
       ELSE /\ pc' = "decimal"
            /\ UNCHANGED frame
    /\ UNCHANGED <<op, classicVars>>

\* The decimal try passing strings of bits on to the bitstring try.
KeyTryDecimalNotBits ==
    /\ op = "parsePrivateKey" /\ pc = "decimal"
    /\ LET hex == PadStart64(BigToString16(BigIntDecimal(frame.cleaned)))
       IN  IF IsDigits(frame.cleaned) /\ ~IsBits(frame.cleaned) /\ Len(hex) <= 64
           THEN /\ frame' = [frame EXCEPT !.out = KeyParsed(hex, "decimal")]
                /\ pc' = "done"
           ELSE /\ pc' = "binary"
                /\ UNCHANGED frame
    /\ UNCHANGED <<op, classicVars>>

\* Lines 621-631: try decimal.
KeyTryDecimal ==
    /\ op = "parsePrivateKey" /\ pc = "decimal"
    /\ LET hex == PadStart64(BigToString16(BigIntDecimal(frame.cleaned)))
       IN  IF IsDigits(frame.cleaned) /\ Len(hex) <= 64
           THEN /\ frame' = [frame EXCEPT !.out = KeyParsed(hex, "decimal")]
                /\ pc' = "done"
           ELSE /\ pc' = "binary"
                /\ UNCHANGED frame
    /\ UNCHANGED <<op, classicVars>>

\* Lines 634-642: try a bitstring.
KeyTryBinary ==
    /\ op = "parsePrivateKey" /\ pc = "binary"
    /\ IF IsBits(frame.cleaned) /\ Len(frame.cleaned) <= 256
       THEN /\ frame' = [frame EXCEPT !.out =
                  KeyParsed(PadStart64(BigToString16(BigIntBinary(frame.cleaned))), "binary")]
            /\ pc' = "done"
       ELSE /\ pc' = "0x"
            /\ UNCHANGED frame
    /\ UNCHANGED <<op, classicVars>>

\* Lines 645-654: try hexadecimal after "0x"; nothing matched otherwise.
KeyTry0x ==
    /\ op = "parsePrivateKey" /\ pc = "0x"
    /\ frame' = [frame EXCEPT !.out =
           IF Is0xHex(frame.cleaned)
           THEN KeyParsed(StringToLowerCase(
                              PadStart64(SubSeq(frame.cleaned, 3, Len(frame.cleaned)))), "hex")
           ELSE KeyUnknown("Could not parse private key format")]
    /\ pc' = "done"
    /\ UNCHANGED <<op, classicVars>>

NextKey == KeyTryHex \/ KeyTryWif \/ KeyTryDecimal \/ KeyTryBinary \/ KeyTry0x

SpecKey == InitKey /\ [][NextKey]_vars

(***************************************************************************)
(* Properties of the key-parsing specification.                            *)
(***************************************************************************)
KeyDone == op = "parsePrivateKey" /\ pc = "done"

\* 64 lower-case hexadecimal digits
IsKeyHex(str) == Len(str) = 64 /\ \A k \in 1..64 : str[k] \in (48..57) \cup (97..102)

\* C13: parsePrivateKey returns either a format among hex, wif, decimal,
\* binary with a key of exactly 64 lower-case hexadecimal digits and no
\* error, or the format unknown with an empty key and a non-empty error;
\* the empty input gets the latter.
C13_TwoShapes ==
    KeyDone =>
        /\ \/ /\ frame.out.format \in {"hex", "wif", "decimal", "binary"}
              /\ IsKeyHex(frame.out.privateKeyHex)
              /\ frame.out.error = <<>>
           \/ /\ frame.out.format = "unknown"
              /\ frame.out.privateKeyHex = <<>>
              /\ frame.out.error # <<>> /\ frame.out.error[1] # ""
        /\ frame.input = <<>> => frame.out.format = "unknown"

\* C13's case: a decimal number of one digit came back as a key of 64
\* digits, and the empty input as unknown.
C13_Witness ==
    /\ KeyDone
    /\ frame.input = <<57>>
    /\ frame.out = KeyParsed(Repeat(48, 63) \o <<57>>, "decimal")

\* The bytes a Base58 string stands for: its value in base 58 written in
\* base 256, after one zero byte for each leading '1'.
Base58Bytes(str) ==
    LET timesPlus(bytes, v) ==
            LET st == ForRange(LAMBDA i, s :
                                   LET n == bytes[i] * 58 + s.carry
                                   IN  [out |-> Append(s.out, n % 256), carry |-> n \div 256],
                               1, Len(bytes), [out |-> <<>>, carry |-> v])
            IN  IF st.carry > 0 THEN Append(st.out, st.carry) ELSE st.out
        value == ForRange(LAMBDA k, bytes : timesPlus(bytes, IndexOf(BASE58_ALPHABET, str[k])),
                          1, Len(str), <<>>)
    IN  Repeat(0, LeadingCount(str, 49)) \o Reverse(value)

\* The string is the WIF of some key: Base58 of a version byte 0x80 or 0xEF,
\* 32 key bytes, an optional 0x01, and the first four bytes of the double
\* SHA-256 of these.
IsWif(str) ==
    /\ LooksLikeWif(str)
    /\ LET decoded == Base58Bytes(str)
           payload == SubSeq(decoded, 1, Len(decoded) - 4)
       IN  /\ Len(decoded) \in {37, 38}
           /\ SubSeq(decoded, Len(decoded) - 3, Len(decoded))
                  = SubSeq(doubleSha256(payload), 1, 4)
           /\ payload[1] \in {128, 239}
           /\ Len(payload) = 34 => payload[34] = 1

\* A decimal numeral below 2^256: after its leading zeros it is shorter
\* than 2^256's, or as long and before it in the order of the digits.
IsDecimalBelow2p256(str) ==
    /\ IsDigits(str)
    /\ LET z == LeadingCount(str, 48)
           s == SubSeq(str, z + 1, Len(str))
       IN  \/ Len(s) < Len(Decimal2p256)
           \/ /\ Len(s) = Len(Decimal2p256)
              /\ \E k \in 1..Len(s) : /\ s[k] < Decimal2p256[k]
                                      /\ \A m \in 1..(k - 1) : s[m] = Decimal2p256[m]

\* The format of the earliest of hex (64 digits), WIF, decimal, bitstring,
\* 0x-hex whose checks the string passes; unknown if it passes none.
EarliestFormat(str) ==
    IF IsHex64(str) THEN "hex"
    ELSE IF IsWif(str) THEN "wif"
    ELSE IF IsDecimalBelow2p256(str) THEN "decimal"
    ELSE IF IsBits(str) /\ Len(str) <= 256 THEN "binary"
    ELSE IF Is0xHex(str) THEN "hex"
    ELSE "unknown"

\* C14: the format returned is that of the earliest of 64-character hex,
\* WIF, decimal below 2^256, bitstring of at most 256 bits, 0x-hex whose
\* checks the trimmed input passes, and unknown only when it passes none.
C14_EarliestFormat ==
    KeyDone => frame.out.format = EarliestFormat(Trim(frame.input))

(***************************************************************************)
(* Addresses (src/lib/web-scraper.ts).  RIPEMD-160 and the secp256k1 point *)
(* multiplication are the library's: the model stands in mixing functions  *)
(* of the key's value, and keeps the library's refusal of the keys 0 and   *)
(* >= the group order.                                                     *)
(***************************************************************************)
\* RIPEMD-160 of the SHA-256 digests of the two public keys of the private
\* key 1; pairs of a buffer and its digest.
Ripemd160Known ==
    <<
    <<
      <<15, 113, 91, 175, 93, 76, 46, 211, 41, 120, 92, 239, 41, 229, 98,
        247, 52, 136, 200, 162, 187, 157, 188, 87, 0, 179, 97, 213, 75, 155,
        5, 84>>,
      <<117, 30, 118, 232, 25, 145, 150, 212, 84, 148, 28, 69, 209, 179, 163,
        35, 241, 67, 59, 214>>
    >>,
    <<
      <<80, 146, 155, 116, 193, 160, 73, 84, 183, 139, 75, 96, 53, 233, 122,
        94, 7, 138, 90, 15, 40, 236, 150, 213, 71, 191, 238, 154, 206, 128,
        58, 192>>,
      <<145, 178, 75, 249, 245, 40, 133, 50, 150, 10, 198, 135, 171, 176, 53,
        18, 123, 29, 40, 165>>
    >>
    >>

\* ripemd160(buffer): the library's digest for the buffers above, the mixing
\* function for every other buffer.
ripemd160(buffer) ==
    IF \E k \in 1..Len(Ripemd160Known) : Ripemd160Known[k][1] = buffer
    THEN Ripemd160Known[CHOOSE k \in 1..Len(Ripemd160Known) : Ripemd160Known[k][1] = buffer][2]
    ELSE [j \in 1..20 |-> Mix(buffer, 19 * j + Len(buffer)) % 256]

\* hash160(buffer)
hash160(buffer) == ripemd160(sha256(buffer))

\* The order of the secp256k1 group, 32 bytes.
Secp256k1Order ==
    <<255, 255, 255, 255, 255, 255, 255, 255, 255, 255, 255, 255, 255, 255,
      255, 254, 186, 174, 220, 230, 175, 72, 160, 59, 191, 210, 94, 140,
      208, 54, 65, 65>>

\* a < b for byte strings of one length, as big-endian numbers
BytesLess(a, b) ==
    \E k \in 1..Len(a) : a[k] < b[k] /\ \A m \in 1..(k - 1) : a[m] = b[m]

\* ecdh.setPrivateKey(buffer) accepts the key: its value is not 0 and is
\* below the group's order.
ValidScalar(buffer) ==
    /\ \E k \in 1..Len(buffer) : buffer[k] # 0
    /\ Len(buffer) < 32 \/ BytesLess(buffer, Secp256k1Order)

\* The generator of secp256k1, the public key of the private key 1: 0x04, x, y.
Secp256k1G ==
    <<4>> \o
    <<121, 190, 102, 126, 249, 220, 187, 172, 85, 160, 98, 149, 206, 135, 11,
      7, 2, 155, 252, 219, 45, 206, 40, 217, 89, 242, 129, 91, 22, 248, 23,
      152>> \o
    <<72, 58, 218, 119, 38, 163, 196, 101, 93, 164, 251, 252, 14, 17, 8, 168,
      253, 23, 180, 72, 166, 133, 84, 25, 156, 71, 208, 143, 251, 16, 212,
      184>>

\* ecdh.getPublicKey(): 0x04, x, y of the point of the key's value: the
\* generator for the value 1, a stand-in point for every other value.
GetPublicKey(buffer) ==
    LET value == SubSeq(buffer, LeadingCount(buffer, 0) + 1, Len(buffer))
    IN  IF value = <<1>> THEN Secp256k1G
        ELSE <<4>> \o [j \in 1..32 |-> Mix(value, 13 * j + 1) % 256]
                  \o [j \in 1..32 |-> Mix(value, 17 * j + 2) % 256]

\* The values privateKeyToAddress ends with: an address or a thrown error.
AddressOk(address) == [ok |-> TRUE, error |-> "", address |-> address]
AddressError(msg) == [ok |-> FALSE, error |-> msg, address |-> <<>>]

\* privateKeyToAddress with the prefixes 0x02 and 0x03 changed over.
privateKeyToAddressSwapped(privateKeyHex, compressed) ==
    IF Len(privateKeyHex) # 64
    THEN AddressError("Private key must be 64 hex characters (32 bytes)")
    ELSE LET privateKeyBuffer == BufferFromHex(privateKeyHex)
         IN  IF ~ValidScalar(privateKeyBuffer)
             THEN AddressError("Private key is not valid for specified curve.")
             ELSE LET fullPublicKey == GetPublicKey(privateKeyBuffer)
                      x == Subarray(fullPublicKey, 1, 33)
                      y == Subarray(fullPublicKey, 33, 65)
                      prefix == IF y[32] % 2 = 0 THEN 3 ELSE 2
                      publicKey == IF compressed THEN <<prefix>> \o x ELSE fullPublicKey
                      publicKeyHash == hash160(publicKey)
                      versionedHash == <<0>> \o publicKeyHash
                      checksum == Subarray(doubleSha256(versionedHash), 0, 4)
                      addressBytes == versionedHash \o checksum
                  IN  AddressOk(base58Encode(addressBytes))

\* privateKeyToAddress(privateKeyHex, compressed)
privateKeyToAddress(privateKeyHex, compressed) ==
    IF Len(privateKeyHex) # 64
    THEN AddressError("Private key must be 64 hex characters (32 bytes)")
    ELSE LET privateKeyBuffer == BufferFromHex(privateKeyHex)
         IN  IF ~ValidScalar(privateKeyBuffer)
             THEN AddressError("Private key is not valid for specified curve.")
             ELSE LET fullPublicKey == GetPublicKey(privateKeyBuffer)
                      x == Subarray(fullPublicKey, 1, 33)
                      y == Subarray(fullPublicKey, 33, 65)
                      prefix == IF y[32] % 2 = 0 THEN 2 ELSE 3
                      publicKey == IF compressed THEN <<prefix>> \o x ELSE fullPublicKey
                      publicKeyHash == hash160(publicKey)
                      versionedHash == <<0>> \o publicKeyHash
                      checksum == Subarray(doubleSha256(versionedHash), 0, 4)
                      addressBytes == versionedHash \o checksum
                  IN  AddressOk(base58Encode(addressBytes))

\* "Error: " followed by the message (the message stands for its text).
ErrorText(msg) == <<"Error: ", msg>>

\* The comparison that lets a non-empty beginning of the address match.
ValidateResultPrefix(compressedAddress, uncompressedAddress, targetAddress) ==
    LET IsPrefix(a, b) == Len(a) <= Len(b) /\ SubSeq(b, 1, Len(a)) = a
        matchesCompressed   == targetAddress # <<>> /\ IsPrefix(targetAddress, compressedAddress)
        matchesUncompressed == targetAddress # <<>> /\ IsPrefix(targetAddress, uncompressedAddress)
    IN  [valid |-> matchesCompressed \/ matchesUncompressed,
         generatedAddressCompressed |-> compressedAddress,
         generatedAddressUncompressed |-> uncompressedAddress,
         matchType |-> IF matchesCompressed THEN "compressed"
                       ELSE IF matchesUncompressed THEN "uncompressed" ELSE "none"]

\* Lines 497-505: the comparison and the value returned.
ValidateResult(compressedAddress, uncompressedAddress, targetAddress) ==
    LET matchesCompressed   == compressedAddress = targetAddress
        matchesUncompressed == uncompressedAddress = targetAddress
    IN  [valid |-> matchesCompressed \/ matchesUncompressed,
         generatedAddressCompressed |-> compressedAddress,
         generatedAddressUncompressed |-> uncompressedAddress,
         matchType |-> IF matchesCompressed THEN "compressed"
                       ELSE IF matchesUncompressed THEN "uncompressed" ELSE "none"]

\* Lines 506-513: the value the catch returns.
ValidateFailed(msg) ==
    [valid |-> FALSE,
     generatedAddressCompressed |-> ErrorText(msg),
     generatedAddressUncompressed |-> ErrorText(msg),
     matchType |-> "none"]

(***************************************************************************)
(* The validation specification: validateKeyForAddress runs on a key and a *)
(* target, one action per statement of its try block and one for its       *)
(* catch.                                                                  *)
(***************************************************************************)
\* "1212...12", 64 characters
KeyOneTwo == [k \in 1..64 |-> IF k % 2 = 1 THEN 49 ELSE 50]

\* Keys tried: 00...01, 1212...12; ff...ff (above the group order), 00...00,
\* 63 characters, 64 characters that are no hexadecimal digits.
AddressKeys ==
    {KeyOne, KeyOneTwo, Repeat(102, 64), Repeat(48, 64), Repeat(49, 63), Repeat(122, 64)}

\* "1GSMG1JC9wtdSwfwApgj2xcmJPAwx7prBe"
GSMG_TARGET_ADDRESS ==
    <<49, 71, 83, 77, 71, 49, 74, 67, 57, 119, 116, 100, 83, 119, 102, 119, 65, 112,
      103, 106, 50, 120, 99, 109, 74, 80, 65, 119, 120, 55, 112, 114, 66, 101>>

\* Targets tried: the two addresses of the key 00...01, and of each its first
\* five characters, itself with one more character, and itself in lower
\* case; the empty string; the puzzle's address.
AddressTargets ==
    LET own == {privateKeyToAddress(KeyOne, c).address : c \in BOOLEAN}
    IN  own \cup {SubSeq(a, 1, 5) : a \in own} \cup {a \o <<49>> : a \in own}
            \cup {StringToLowerCase(a) : a \in own} \cup {<<>>, GSMG_TARGET_ADDRESS}

ValidateFrame(privateKeyHex, targetAddress) ==
    [privateKeyHex |-> privateKeyHex, targetAddress |-> targetAddress,
     compressedAddress |-> <<>>, uncompressedAddress |-> <<>>, caught |-> "",
     out |-> <<>>]

InitValidate ==
    /\ pc = "start"
    /\ op = "validateKeyForAddress"
    /\ ClassicIdle
    /\ \E key \in AddressKeys, target \in AddressTargets : frame = ValidateFrame(key, target)

\* Line 494
ValidateCompressed ==
    /\ op = "validateKeyForAddress" /\ pc = "start"
    /\ LET a == privateKeyToAddress(frame.privateKeyHex, TRUE)
       IN  IF a.ok THEN /\ frame' = [frame EXCEPT !.compressedAddress = a.address]
                        /\ pc' = "uncompressed"
           ELSE /\ frame' = [frame EXCEPT !.caught = a.error]
                /\ pc' = "catch"
    /\ UNCHANGED <<op, classicVars>>

\* Line 495
ValidateUncompressed ==
    /\ op = "validateKeyForAddress" /\ pc = "uncompressed"
    /\ LET a == privateKeyToAddress(frame.privateKeyHex, FALSE)
       IN  IF a.ok THEN /\ frame' = [frame EXCEPT !.uncompressedAddress = a.address]
                        /\ pc' = "compare"
           ELSE /\ frame' = [frame EXCEPT !.caught = a.error]
                /\ pc' = "catch"
    /\ UNCHANGED <<op, classicVars>>

\* Lines 497-505
ValidateCompare ==
    /\ op = "validateKeyForAddress" /\ pc = "compare"
    /\ frame' = [frame EXCEPT !.out = ValidateResult(frame.compressedAddress,
                                                     frame.uncompressedAddress,
                                                     frame.targetAddress)]
    /\ pc' = "done"
    /\ UNCHANGED <<op, classicVars>>

\* Lines 506-513
ValidateCatch ==
    /\ op = "validateKeyForAddress" /\ pc = "catch"
    /\ frame' = [frame EXCEPT !.out = ValidateFailed(frame.caught)]
    /\ pc' = "done"
    /\ UNCHANGED <<op, classicVars>>

NextValidate == ValidateCompressed \/ ValidateUncompressed \/ ValidateCompare \/ ValidateCatch

SpecValidate == InitValidate /\ [][NextValidate]_vars

(***************************************************************************)
(* Properties of the validation specification.                             *)
(***************************************************************************)
ValidateDone == op = "validateKeyForAddress" /\ pc = "done"

\* C15: valid is true exactly when matchType is not none; matchType is
\* compressed only if the whole compressed address equals the target,
\* uncompressed only if the whole uncompressed address does, and none when
\* neither does or the derivation fails.
C15_WholeMatchOnly ==
    ValidateDone =>
        LET c == privateKeyToAddress(frame.privateKeyHex, TRUE)
            u == privateKeyToAddress(frame.privateKeyHex, FALSE)
            t == frame.targetAddress
        IN  /\ frame.out.valid <=> frame.out.matchType # "none"
            /\ frame.out.matchType \in {"compressed", "uncompressed", "none"}
            /\ frame.out.matchType = "compressed" => (c.ok /\ c.address = t)
            /\ frame.out.matchType = "uncompressed" => (u.ok /\ u.address = t)
            /\ (~c.ok \/ ~u.ok \/ (c.address # t /\ u.address # t)) =>
                   frame.out.matchType = "none"

\* C15's case: the first five characters of the key's compressed address
\* were the target, and the answer was no match.
C15_Witness ==
    /\ ValidateDone
    /\ frame.privateKeyHex = KeyOne
    /\ frame.targetAddress = SubSeq(privateKeyToAddress(KeyOne, TRUE).address, 1, 5)
    /\ frame.out.matchType = "none" /\ ~frame.out.valid

(***************************************************************************)
(* The letter substitutions rot13, caesarCipher and atbashCipher           *)
(* (src/lib/crypto-utils.ts).                                              *)
(***************************************************************************)
\* text.replace(/[a-zA-Z]/g, fn): fn's character in the place of every
\* character the pattern matches, the others kept.
ReplaceLetters(text, Fn(_)) ==
    [i \in 1..Len(text) |->
        IF text[i] \in (65..90) \cup (97..122) THEN Fn(text[i]) ELSE text[i]]

\* const base = char <= "Z" ? 65 : 97
LetterBase(char) == IF char <= 90 THEN 65 ELSE 97

\* The remainder a % n of the source language for n > 0: it has the sign of a.
Remainder(a, n) == IF a >= 0 THEN a % n ELSE 0 - ((0 - a) % n)

\* rot13(text)
rot13(text) ==
    ReplaceLetters(text, LAMBDA char :
        ((char - LetterBase(char) + 13) % 26) + LetterBase(char))

\* const normalizedShift = ((shift % 26) + 26) % 26
NormalizedShift(shift) == Remainder(Remainder(shift, 26) + 26, 26)

\* caesarCipher(text, shift)
caesarCipher(text, shift) ==
    ReplaceLetters(text, LAMBDA char :
        ((char - LetterBase(char) + NormalizedShift(shift)) % 26) + LetterBase(char))

\* atbashCipher(text)
atbashCipher(text) ==
    ReplaceLetters(text, LAMBDA char :
        LetterBase(char) + (25 - (char - LetterBase(char))))

(***************************************************************************)
(* The letters specification: one call of one of the five alphabetic       *)
(* ciphers on a text.                                                      *)
(***************************************************************************)
MaxLetters == 3   \* longest text handed to an alphabetic cipher

\* Shifts tried: below -26, negative, none, 3, 13, a whole turn, above 26.
CaesarShifts == {-27, -1, 0, 3, 13, 26, 29}

\* Keys tried: one letter, two letters, a letter after a non-letter.
LetterKeys == {<<75>>, <<75, 98>>, <<49, 98>>}

LettersFrame(fn, text, key, shift, decrypt) ==
    [fn |-> fn, text |-> text, key |-> key, shift |-> shift, decrypt |-> decrypt,
     out |-> <<>>]

InitLetters ==
    /\ pc = "start"
    /\ op = "letters"
    /\ ClassicIdle
    /\ \E text \in SeqsUpTo(CipherChars, MaxLetters) :
          \/ frame = LettersFrame("rot13", text, <<>>, 0, FALSE)
          \/ \E shift \in CaesarShifts :
                frame = LettersFrame("caesarCipher", text, <<>>, shift, FALSE)
          \/ frame = LettersFrame("atbashCipher", text, <<>>, 0, FALSE)
          \/ \E key \in LetterKeys, decrypt \in BOOLEAN :
                frame = LettersFrame("vigenereCipher", text, key, 0, decrypt)
          \/ \E key \in LetterKeys :
                frame = LettersFrame("decryptBeaufort", text, key, 0, FALSE)

\* rot13(text)
Rot13Call ==
    /\ op = "letters" /\ pc = "start" /\ frame.fn = "rot13"
    /\ frame' = [frame EXCEPT !.out = rot13(frame.text)]
    /\ pc' = "done"
    /\ UNCHANGED <<op, classicVars>>

\* caesarCipher(text, shift)
CaesarCall ==
    /\ op = "letters" /\ pc = "start" /\ frame.fn = "caesarCipher"
    /\ frame' = [frame EXCEPT !.out = caesarCipher(frame.text, frame.shift)]
    /\ pc' = "done"
    /\ UNCHANGED <<op, classicVars>>

\* atbashCipher(text)
AtbashCall ==
    /\ op = "letters" /\ pc = "start" /\ frame.fn = "atbashCipher"
    /\ frame' = [frame EXCEPT !.out = atbashCipher(frame.text)]
    /\ pc' = "done"
    /\ UNCHANGED <<op, classicVars>>

\* vigenereCipher(text, key, decrypt)
VigenereCall ==
    /\ op = "letters" /\ pc = "start" /\ frame.fn = "vigenereCipher"
    /\ frame' = [frame EXCEPT !.out = vigenereCipher(frame.text, frame.key, frame.decrypt)]
    /\ pc' = "done"
    /\ UNCHANGED <<op, classicVars>>

\* decryptBeaufort(text, key)
BeaufortCall ==
    /\ op = "letters" /\ pc = "start" /\ frame.fn = "decryptBeaufort"
    /\ frame' = [frame EXCEPT !.out = decryptBeaufort(frame.text, frame.key)]
    /\ pc' = "done"
    /\ UNCHANGED <<op, classicVars>>

NextLetters == Rot13Call \/ CaesarCall \/ AtbashCall \/ VigenereCall \/ BeaufortCall

SpecLetters == InitLetters /\ [][NextLetters]_vars

(***************************************************************************)
(* Properties of the letters specification.                                *)
(***************************************************************************)
LettersDone == op = "letters" /\ pc = "done"

\* The number of ASCII letters of text before position i.
LettersBefore(text, i) == Cardinality({j \in 1..(i - 1) : IsAsciiLetter(text[j])})

\* Every character of the text that is no ASCII letter is at its place in
\* the output.
OthersKept(text, out) ==
    /\ Len(out) = Len(text)
    /\ \A i \in 1..Len(text) : ~IsAsciiLetter(text[i]) => out[i] = text[i]

\* Every ASCII letter of the text was combined with the key letter whose
\* index is the number of ASCII letters before it.
KeyIndexCountsLetters(f) ==
    LET normalizedKey == NormalizeKey(f.key)
        start(i) == [result |-> <<>>, keyIndex |-> LettersBefore(f.text, i)]
        expected(i) ==
            IF f.fn = "vigenereCipher"
            THEN VigenereChar(f.text[i], normalizedKey, f.decrypt, start(i)).result[1]
            ELSE BeaufortChar(f.text[i], normalizedKey, start(i)).result[1]
    IN  /\ Len(f.out) = Len(f.text)
        /\ \A i \in 1..Len(f.text) : IsAsciiLetter(f.text[i]) => f.out[i] = expected(i)

\* C18: in rot13, caesarCipher, atbashCipher, vigenereCipher and
\* decryptBeaufort every input character that is no ASCII letter is unchanged
\* at its position of the output, and in vigenereCipher and decryptBeaufort
\* it does not advance the key index.
C18_OnlyAsciiLetters ==
    LettersDone =>
        /\ OthersKept(frame.text, frame.out)
        /\ frame.fn \in {"vigenereCipher", "decryptBeaufort"} => KeyIndexCountsLetters(frame)

(***************************************************************************)
(* The WIF specification: one call of wifToPrivateKey on a string.         *)
(***************************************************************************)
MaxWif == 2   \* longest of the short strings handed to wifToPrivateKey

\* Strings whose decoding by base58Decode ends in the first four bytes of
\* the double hash of what precedes them, with payloads of 34 bytes ending
\* in 1, of 33 bytes, of 34 bytes not ending in 1, and of 32
\* bytes: twenty to twenty-five '1' and then "WsJZZ7i", "JGyjYr", "uuGd8",
\* "BD6aLU", "4DA8DG".
WifCompressedText == Repeat(49, 20) \o <<87, 115, 74, 90, 90, 55, 105>>
WifUncompressedText == Repeat(49, 23) \o <<74, 71, 121, 106, 89, 114>>
WifChecked ==
    {WifCompressedText, WifUncompressedText, Repeat(49, 25) \o <<117, 117, 71, 100, 56>>,
     Repeat(49, 24) \o <<66, 68, 54, 97, 76, 85>>, Repeat(49, 24) \o <<52, 68, 65, 56, 68, 71>>}

\* Characters of the short strings tried: '1', '2', 'z', 'K', and '0', which
\* is not in the alphabet.
WifChars == {49, 50, 122, 75, 48}

\* Strings tried: the ones above, each also with one more leading '1', with
\* its first character dropped and with its last character replaced; the
\* strings privateKeyToWIF makes for the key 00...01; short strings.
WifInputs ==
    WifChecked
        \cup {<<49>> \o s : s \in WifChecked}
        \cup {Tail(s) : s \in WifChecked}
        \cup {SubSeq(s, 1, Len(s) - 1) \o <<50>> : s \in WifChecked}
        \cup {privateKeyToWIF(KeyOne, c, m) : c \in BOOLEAN, m \in BOOLEAN}
        \cup SeqsUpTo(WifChars, MaxWif)

InitWif ==
    /\ pc = "start"
    /\ op = "wifToPrivateKey"
    /\ ClassicIdle
    /\ \E wif \in WifInputs : frame = [wif |-> wif, out |-> WifError("none")]

\* wifToPrivateKey(wif)
WifCall ==
    /\ op = "wifToPrivateKey" /\ pc = "start"
    /\ frame' = [frame EXCEPT !.out = wifToPrivateKey(frame.wif)]
    /\ pc' = "done"
    /\ UNCHANGED <<op, classicVars>>

NextWif == WifCall

SpecWif == InitWif /\ [][NextWif]_vars

(***************************************************************************)
(* Properties of the WIF specification.                                    *)
(***************************************************************************)
WifDone == op = "wifToPrivateKey" /\ pc = "done"

\* The decoded bytes of the string, those before the last four, and whether
\* the last four are the first four of the double hash of those before.
WifDecoded == base58Decode(frame.wif).bytes
WifPayload == SubSeq(WifDecoded, 1, Len(WifDecoded) - 4)
WifChecksumRight ==
    /\ Len(WifDecoded) >= 4
    /\ SubSeq(WifDecoded, Len(WifDecoded) - 3, Len(WifDecoded))
           = SubSeq(doubleSha256(WifPayload), 1, 4)
WifLengthRight ==
    Len(WifPayload) = 33 \/ (Len(WifPayload) = 34 /\ WifPayload[34] = 1)

\* C16: wifToPrivateKey fails with the checksum error whenever the last four
\* decoded bytes are not the first four of the double hash of the bytes
\* before them, whatever the length; with a right checksum it fails with the
\* format error exactly when the payload is neither 33 bytes nor 34 bytes
\* ending in 1, and otherwise returns bytes 1..32 of the payload as the key.
C16_ChecksumThenLength ==
    (WifDone /\ base58Decode(frame.wif).ok) =>
        IF ~WifChecksumRight THEN frame.out = WifError("Invalid WIF checksum")
        ELSE IF ~WifLengthRight THEN frame.out = WifError("Invalid WIF format")
        ELSE /\ frame.out.ok
             /\ frame.out.privateKey = BufferToHex(SubSeq(WifPayload, 2, 33))

\* C16's case: a string with a right checksum and a payload of 34 bytes
\* ending in 1 was decoded to its key.
C16_Witness ==
    /\ WifDone
    /\ frame.wif = WifCompressedText
    /\ WifChecksumRight /\ Len(WifPayload) = 34
    /\ frame.out.ok /\ frame.out.compressed
    /\ Len(frame.out.privateKey) = 64

\* C17: every string wifToPrivateKey accepts has version byte 0x80 or 0xEF,
\* mainnet being true for 0x80 and false for 0xEF.
C17_KnownVersionOnly ==
    (WifDone /\ frame.out.ok) =>
        /\ WifPayload[1] \in {128, 239}
        /\ frame.out.mainnet <=> WifPayload[1] = 128

(***************************************************************************)
(* parseMatrix (src/lib/crypto-utils.ts).                                  *)
(***************************************************************************)
\* The replacement that removes nothing.
RemoveNonBitsNone(input) == input

\* input.replace(/[^01]/g, "")
RemoveNonBits(input) == SelectSeq(input, LAMBDA ch : ch \in {48, 49})

\* Number(ch) of a one-character string: a digit's value, 0 for white space,
\* and NaN, here -1, for any other character.
NumberOfChar(ch) ==
    IF ch \in 48..57 THEN ch - 48 ELSE IF IsSpace(ch) THEN 0 ELSE -1

\* values[index] || 0: 0 for an index past the end, for NaN and for 0.
ValueOrZero(values, index) ==
    IF index >= Len(values) THEN 0
    ELSE IF values[index + 1] = -1 THEN 0
    ELSE values[index + 1]

\* parseMatrix(input, rows, cols)
parseMatrix(input, rows, cols) ==
    LET cleaned == RemoveNonBits(input)
        values  == [k \in 1..Len(cleaned) |-> NumberOfChar(cleaned[k])]
    IN  [i \in 1..rows |->
            [j \in 1..cols |-> ValueOrZero(values, (i - 1) * cols + (j - 1))]]

(***************************************************************************)
(* The parsing specification: one call of parseMatrix.                     *)
(***************************************************************************)
MaxMatrixText == 4   \* longest text handed to parseMatrix
MaxParseDim == 2     \* largest rows and cols handed to parseMatrix

\* Text characters tried: '0', '1', ' ', '2'.
MatrixTextChars == {48, 49, 32, 50}

InitParse ==
    /\ pc = "start"
    /\ op = "parseMatrix"
    /\ ClassicIdle
    /\ \E input \in SeqsUpTo(MatrixTextChars, MaxMatrixText),
          rows \in 0..MaxParseDim, cols \in 0..MaxParseDim :
          frame = [input |-> input, rows |-> rows, cols |-> cols, out |-> <<>>]

\* parseMatrix(input, rows, cols)
ParseMatrixCall ==
    /\ op = "parseMatrix" /\ pc = "start"
    /\ frame' = [frame EXCEPT !.out = parseMatrix(frame.input, frame.rows, frame.cols)]
    /\ pc' = "done"
    /\ UNCHANGED <<op, classicVars>>

NextParse == ParseMatrixCall

SpecParse == InitParse /\ [][NextParse]_vars

(***************************************************************************)
(* Properties of the parsing specification.                                *)
(***************************************************************************)
ParseDone == op = "parseMatrix" /\ pc = "done"

\* The '0' and '1' characters of the text, in order.
BitsOf(text) == SelectSeq(text, LAMBDA ch : ch = 48 \/ ch = 49)

\* C19: parseMatrix(text, rows, cols) has exactly rows rows of exactly cols
\* entries, each 0 or 1; entry (i, j) is the (i*cols + j)-th of the text's
\* '0' and '1' characters, or 0 when there are not that many; characters
\* beyond rows*cols are ignored.
C19_RowMajorBits ==
    ParseDone =>
        LET bits == BitsOf(frame.input)
        IN  /\ Len(frame.out) = frame.rows
            /\ \A i \in 0..(frame.rows - 1) :
                  /\ Len(frame.out[i + 1]) = frame.cols
                  /\ \A j \in 0..(frame.cols - 1) :
                        LET index == i * frame.cols + j
                        IN  frame.out[i + 1][j + 1] =
                                IF index < Len(bits) THEN bits[index + 1] - 48 ELSE 0

\* C19's case: "1 01" was parsed into two rows of two columns: the space was
\* skipped and the fourth entry, for which no character is left, is 0.
C19_Witness ==
    /\ ParseDone
    /\ frame.input = <<49, 32, 48, 49>> /\ frame.rows = 2 /\ frame.cols = 2
    /\ frame.out = <<<<1, 0>>, <<1, 0>>>>

(***************************************************************************)
(* binaryToAscii (src/lib/crypto-utils.ts).                                *)
(***************************************************************************)
\* "Error: Input must contain only 0s and 1s"
ErrNotBinary ==
    <<69, 114, 114, 111, 114, 58, 32, 73, 110, 112, 117, 116, 32, 109, 117,
      115, 116, 32, 99, 111, 110, 116, 97, 105, 110, 32, 111, 110, 108, 121,
      32, 48, 115, 32, 97, 110, 100, 32, 49, 115>>

\* "No valid 8-bit sequences found"
NoValidSequences ==
    <<78, 111, 32, 118, 97, 108, 105, 100, 32, 56, 45, 98, 105, 116, 32, 115,
      101, 113, 117, 101, 110, 99, 101, 115, 32, 102, 111, 117, 110, 100>>

\* cleaned.match(/.{1,8}/g) || []: the pieces of eight characters from the
\* left, the last one shorter when the length is no multiple of eight.
Chunks(cleaned) ==
    [k \in 1..((Len(cleaned) + 7) \div 8) |->
        SubSeq(cleaned, 8 * k - 7, Min(8 * k, Len(cleaned)))]

\* Number.parseInt(chunk, 2) of a string of '0' and '1'
ParseIntBinary(chunk) == ForRange(LAMBDA k, v : 2 * v + (chunk[k] - 48), 1, Len(chunk), 0)

\* Number.prototype.toString() of n >= 0
RECURSIVE NumberToString(_)
NumberToString(n) ==
    IF n < 10 THEN <<48 + n>> ELSE Append(NumberToString(n \div 10), 48 + (n % 10))

\* `[0x${decimal.toString(16).padStart(2, "0")}]`
HexToken(decimal) == <<91, 48, 120>> \o PadStart2(ToString16(decimal)) \o <<93>>

\* The choice without the branch for 10 and 13.
ByteTextNoNewlines(decimal) ==
    IF decimal >= 32 /\ decimal <= 126 THEN <<decimal>> ELSE HexToken(decimal)

\* What a chunk of eight bits adds to result (lines 207-215).
ByteText(decimal) ==
    IF decimal >= 32 /\ decimal <= 126 THEN <<decimal>>
    ELSE IF decimal = 10 \/ decimal = 13 THEN <<decimal>>
    ELSE HexToken(decimal)

\* `\n\n[Warning: ${count} incomplete byte(s) ignored]`
IncompleteWarning(count) ==
    <<10, 10, 91, 87, 97, 114, 110, 105, 110, 103, 58, 32>> \o NumberToString(count)
    \o
    <<32, 105, 110, 99, 111, 109, 112, 108, 101, 116, 101, 32, 98, 121, 116,
      101, 40, 115, 41, 32, 105, 103, 110, 111, 114, 101, 100, 93>>

\* binaryToAscii(binary)
binaryToAscii(binary) ==
    LET cleaned == StripSpace(binary)
    IN  IF ~IsBits(cleaned) THEN ErrNotBinary
        ELSE
        LET chunks == Chunks(cleaned)
            st == ForRange(LAMBDA k, s :
                      IF Len(chunks[k]) = 8
                      THEN [s EXCEPT !.result = @ \o ByteText(ParseIntBinary(chunks[k]))]
                      ELSE [s EXCEPT !.invalidChunks = Append(@, chunks[k])],
                      1, Len(chunks), [result |-> <<>>, invalidChunks |-> <<>>])
            warned == IF Len(st.invalidChunks) > 0
                      THEN st.result \o IncompleteWarning(Len(st.invalidChunks))
                      ELSE st.result
        IN  IF warned = <<>> THEN NoValidSequences ELSE warned

(***************************************************************************)
(* The bits specification: one call of binaryToAscii.  The input is up to  *)
(* MaxGroups groups of eight bits, written with or without a space in the  *)
(* middle of each, followed by up to MaxTrail further characters.          *)
(***************************************************************************)
MaxGroups == 2   \* most groups of eight bits in an input
MaxTrail == 2    \* most characters after the groups

\* Byte values tried: 9, 10, 13, 32, 126, 127, 255.
GroupValues == {9, 10, 13, 32, 126, 127, 255}

\* Characters tried after the groups: '0', '1', ' ', line feed, '2'.
TrailChars == {48, 49, 32, 10, 50}

\* The eight binary digits of a byte, with a space after the fourth if asked.
BitsOfByte(v, spaced) ==
    LET bits == [k \in 1..8 |-> 48 + ((v \div (2 ^ (8 - k))) % 2)]
    IN  IF spaced THEN SubSeq(bits, 1, 4) \o <<32>> \o SubSeq(bits, 5, 8) ELSE bits

BinaryInputs ==
    {ForRange(LAMBDA k, s : s \o BitsOfByte(vs[k], spaced), 1, Len(vs), <<>>) \o trail :
        vs \in SeqsUpTo(GroupValues, MaxGroups), spaced \in BOOLEAN,
        trail \in SeqsUpTo(TrailChars, MaxTrail)}

InitBits ==
    /\ pc = "start"
    /\ op = "binaryToAscii"
    /\ ClassicIdle
    /\ \E binary \in BinaryInputs : frame = [binary |-> binary, out |-> <<>>]

\* binaryToAscii(binary)
BinaryToAsciiCall ==
    /\ op = "binaryToAscii" /\ pc = "start"
    /\ frame' = [frame EXCEPT !.out = binaryToAscii(frame.binary)]
    /\ pc' = "done"
    /\ UNCHANGED <<op, classicVars>>

NextBits == BinaryToAsciiCall

SpecBits == InitBits /\ [][NextBits]_vars

(***************************************************************************)
(* Properties of the bits specification.                                   *)
(***************************************************************************)
BitsDone == op = "binaryToAscii" /\ pc = "done"

OnlyBitsAndSpace(s) == \A k \in 1..Len(s) : s[k] \in {48, 49} \/ IsSpace(s[k])

\* The value of the g-th group of eight of the bit characters bits.
GroupValue(bits, g) ==
    LET bit(k) == bits[8 * (g - 1) + k] - 48
    IN  128 * bit(1) + 64 * bit(2) + 32 * bit(3) + 16 * bit(4)
            + 8 * bit(5) + 4 * bit(6) + 2 * bit(7) + bit(8)

\* The character itself for 32..126, 10 and 13, and otherwise "[0x", two
\* lower-case hexadecimal digits, "]".
GroupText(v) ==
    IF v \in (32..126) \cup {10, 13} THEN <<v>>
    ELSE <<91, 48, 120, HEX_DIGITS[(v \div 16) + 1], HEX_DIGITS[(v % 16) + 1], 93>>

\* The texts of the full groups in order, and the warning with the count 1
\* when bits are left over.
GroupsText(bits) ==
    ForRange(LAMBDA g, s : s \o GroupText(GroupValue(bits, g)), 1, Len(bits) \div 8, <<>>)
        \o (IF Len(bits) % 8 # 0 THEN IncompleteWarning(1) ELSE <<>>)

\* C20 as stated: for every non-empty input of '0', '1' and white space the
\* output is the texts of the full groups of eight of its bits, in order,
\* and the warning for a shorter last group.
C20_AnyBitsOrSpace ==
    (BitsDone /\ frame.binary # <<>> /\ OnlyBitsAndSpace(frame.binary)) =>
        frame.out = GroupsText(StripSpace(frame.binary))

\* C20, amended: the same for every input of '0', '1' and white space that
\* holds at least one '0' or '1'.
C20_GroupsOfEight ==
    (BitsDone /\ OnlyBitsAndSpace(frame.binary) /\ StripSpace(frame.binary) # <<>>) =>
        frame.out = GroupsText(StripSpace(frame.binary))

\* C20's case: "0000 1010" "0111 1111" "01" gave a line feed, the token
\* [0x7f] and the warning for one incomplete group.
C20_Witness ==
    /\ BitsDone
    /\ frame.binary = BitsOfByte(10, TRUE) \o BitsOfByte(127, TRUE) \o <<48, 49>>
    /\ frame.out = <<10, 91, 48, 120, 55, 102, 93>> \o IncompleteWarning(1)

(***************************************************************************)
(* The keys specification: one call of vigenereCipher or decryptBeaufort   *)
(* on a text and a key that may hold no letter.                            *)
(***************************************************************************)
MaxKeyless == 2   \* longest key and longest text of the keys specification

\* Key characters tried: '1', ' ', 'k', and three characters that are no
\* ASCII letters: e-acute (U+00E9), whose upper case is no ASCII letter
\* either, sharp s (U+00DF), whose upper case is "SS", and dotless i
\* (U+0131), whose upper case is "I".
KeylessChars == {49, 32, 107, 233, 223, 305}

InitKeyless ==
    /\ pc = "start"
    /\ op = "letters"
    /\ ClassicIdle
    /\ \E text \in SeqsUpTo({65, 98, 32}, MaxKeyless), key \in SeqsUpTo(KeylessChars, MaxKeyless) :
          \/ \E decrypt \in BOOLEAN :
                frame = LettersFrame("vigenereCipher", text, key, 0, decrypt)
          \/ frame = LettersFrame("decryptBeaufort", text, key, 0, FALSE)

NextKeyless == VigenereCall \/ BeaufortCall

SpecKeyless == InitKeyless /\ [][NextKeyless]_vars

(***************************************************************************)
(* Properties of the keys specification.                                   *)
(***************************************************************************)
\* The key has no letter once upper-cased: none of its characters has an
\* upper case that holds one of 'A'..'Z'.
NoLetterInKey(key) ==
    \A k \in 1..Len(key) : \A m \in 1..Len(ToUpperCase(key[k])) :
        ToUpperCase(key[k])[m] \notin 65..90

\* C21: when the key holds no letter after upper-casing and removal of the
\* non-letters, the empty key included, vigenereCipher and decryptBeaufort
\* return 'Error: Key must contain at least one letter' for every text, and
\* nothing of the text.
C21_KeylessIsError ==
    (LettersDone /\ NoLetterInKey(frame.key)) => frame.out = ErrKeyNoLetter

\* C21's case: vigenereCipher was called on "Ab" with the key "1" followed
\* by e-acute and returned the error text.
C21_Witness ==
    /\ LettersDone
    /\ frame.fn = "vigenereCipher" /\ frame.text = <<65, 98>> /\ frame.key = <<49, 233>>
    /\ frame.out = ErrKeyNoLetter

(***************************************************************************)
(* The address specification: one call of privateKeyToAddress.             *)
(***************************************************************************)
MaxScalar == 30   \* largest private key value handed to privateKeyToAddress

\* The 64 hexadecimal characters of a private key of value v < 256.
ScalarKey(v) == Repeat(48, 62) \o PadStart2(ToString16(v))

InitAddress ==
    /\ pc = "start"
    /\ op = "privateKeyToAddress"
    /\ ClassicIdle
    /\ \E v \in 0..MaxScalar, compressed \in BOOLEAN :
          frame = [privateKeyHex |-> ScalarKey(v), compressed |-> compressed,
                   out |-> AddressError("none")]

\* privateKeyToAddress(privateKeyHex, compressed)
AddressCall ==
    /\ op = "privateKeyToAddress" /\ pc = "start"
    /\ frame' = [frame EXCEPT !.out = privateKeyToAddress(frame.privateKeyHex, frame.compressed)]
    /\ pc' = "done"
    /\ UNCHANGED <<op, classicVars>>

NextAddress == AddressCall

SpecAddress == InitAddress /\ [][NextAddress]_vars

(***************************************************************************)
(* Properties of the address specification.                                *)
(***************************************************************************)
AddressDone == op = "privateKeyToAddress" /\ pc = "done"

\* "1BgGZ9tcN4rm9KBzDn7KprQz87SZ26SAMH"
AddressOfOne ==
    <<49, 66, 103, 71, 90, 57, 116, 99, 78, 52, 114, 109, 57, 75, 66, 122, 68, 110,
      55, 75, 112, 114, 81, 122, 56, 55, 83, 90, 50, 54, 83, 65, 77, 72>>

\* The public key the address is made of: the library's 65 bytes, or 0x02
\* (y even) or 0x03 (y odd) followed by the 32 bytes of x.
PublicKeyOf(privateKeyHex, compressed) ==
    LET full == GetPublicKey(BufferFromHex(privateKeyHex))
    IN  IF compressed
        THEN <<IF full[65] % 2 = 0 THEN 2 ELSE 3>> \o SubSeq(full, 2, 33)
        ELSE full

\* C22: for every 64-character key in the scalar range the address stands,
\* in base 58, for the 25 bytes 0x00, hash160(pub), and the first 4 bytes of
\* the double SHA-256 of the 21 bytes before; for the scalar 1 and
\* compressed = true it is 1BgGZ9tcN4rm9KBzDn7KprQz87SZ26SAMH.
C22_AddressLayout ==
    (AddressDone /\ ValidScalar(BufferFromHex(frame.privateKeyHex))) =>
        LET bytes == Base58Bytes(frame.out.address)
            pub   == PublicKeyOf(frame.privateKeyHex, frame.compressed)
        IN  /\ frame.out.ok
            /\ \A k \in 1..Len(frame.out.address) :
                   IndexOf(BASE58_ALPHABET, frame.out.address[k]) # -1
            /\ Len(bytes) = 25
            /\ bytes[1] = 0
            /\ SubSeq(bytes, 2, 21) = hash160(pub)
            /\ SubSeq(bytes, 22, 25) = SubSeq(doubleSha256(SubSeq(bytes, 1, 21)), 1, 4)
            /\ (frame.privateKeyHex = ScalarKey(1) /\ frame.compressed) =>
                   frame.out.address = AddressOfOne

\* C22's case: the compressed address of the private key 1 was made.
C22_Witness ==
    /\ AddressDone
    /\ frame.privateKeyHex = ScalarKey(1) /\ frame.compressed
    /\ frame.out = AddressOk(AddressOfOne)

(***************************************************************************)
(* Base 58 as a number (properties of the codec specification).            *)
(***************************************************************************)
\* The value of a string over the alphabet read in base 58, and of a byte
\* sequence read in base 256, most significant first.
ValueBase58(str) ==
    ForRange(LAMBDA k, v : 58 * v + IndexOf(BASE58_ALPHABET, str[k]), 1, Len(str), 0)
ValueBase256(bytes) == ForRange(LAMBDA k, v : 256 * v + bytes[k], 1, Len(bytes), 0)

\* C23: the bytes base58Decode(s) returns have the base-58 value of s as
\* their big-endian value, and the base-58 value of base58Encode(b) is the
\* big-endian value of b.
C23_Base58Value ==
    /\ (op = "base58Decode" /\ pc = "done" /\ b58Out.ok) =>
           ValueBase256(b58Out.bytes) = ValueBase58(b58Str)
    /\ (op = "base58RoundTrip" /\ pc = "encoded") =>
           ValueBase58(b58Str) = ValueBase256(b58In)

\* The index the claimed rule gives a letter of index c under the key letter
\* of index k.
ClaimedIndex(fn, decrypt, c, k) ==
    IF fn = "decryptBeaufort" THEN (k - c + 26) % 26
    ELSE IF decrypt THEN (c - k + 26) % 26
    ELSE (c + k) % 26

\* C24: with K the key upper-cased and stripped of non-letters and j the
\* number of ASCII letters before a letter of the text, decryptBeaufort maps
\* the letter's index c to (K[j mod |K|] - c) mod 26, vigenereCipher to
\* (c + K[j mod |K|]) mod 26 encrypting and (c - K[j mod |K|]) mod 26
\* decrypting; the output letter has the input letter's case, and the key's
\* case does not matter.
C24_KeyedShift ==
    (LettersDone /\ frame.fn \in {"vigenereCipher", "decryptBeaufort"}) =>
        LET K == NormalizeKey(frame.key)
            lowered == StringToLowerCase(frame.key)
        IN  /\ Len(frame.out) = Len(frame.text)
            /\ \A i \in 1..Len(frame.text) :
                  IsAsciiLetter(frame.text[i]) =>
                      LET base == IF frame.text[i] <= 90 THEN 65 ELSE 97
                          k == K[(LettersBefore(frame.text, i) % Len(K)) + 1] - 65
                      IN  frame.out[i] =
                              base + ClaimedIndex(frame.fn, frame.decrypt,
                                                  frame.text[i] - base, k)
            /\ frame.out = IF frame.fn = "decryptBeaufort"
                           THEN decryptBeaufort(frame.text, lowered)
                           ELSE vigenereCipher(frame.text, lowered, frame.decrypt)

(***************************************************************************)
(* The derivation of key and IV, stated round by round.                    *)
(***************************************************************************)
\* The bytes two hexadecimal digits a string holds from position 2k - 1 on.
RawByte(str, k) == 16 * HexVal(str[2 * k - 1]) + HexVal(str[2 * k])

\* The key and the IV have been derived.
AesDerived == op = "decryptAES256CBC" /\ pc \in {"decipher", "done"}

\* C25: the key material M is the 32 raw bytes of a password of exactly 64
\* hex characters and SHA-256(password) otherwise; the salt S is bytes 8..15
\* of the decoded buffer behind a 'Salted__' header, the ciphertext being
\* bytes 16 onward, and 8 zero bytes otherwise, the ciphertext being the
\* whole buffer; key and IV are the first 32 and the next 16 bytes of
\* D1 D2 D3 with D1 = MD5(M,S), D2 = MD5(D1,M,S), D3 = MD5(D2,M,S).
C25_KeyAndIv ==
    AesDerived =>
        LET p == frame.password
            b == BufferFromBase64(frame.encrypted)
            headed == Len(b) >= 8 /\ [k \in 1..8 |-> b[k]] = SaltedHeader
            M == IF Len(p) = 64 /\ \A k \in 1..64 : HexVal(p[k]) # -1
                 THEN [k \in 1..32 |-> RawByte(p, k)]
                 ELSE sha256(Utf8Bytes(p))
            S == IF headed
                 THEN [k \in 1..((IF Len(b) < 16 THEN Len(b) ELSE 16) - 8) |-> b[8 + k]]
                 ELSE [k \in 1..8 |-> 0]
            D1 == md5(M \o S)
            D2 == md5(D1 \o M \o S)
            D3 == md5(D2 \o M \o S)
        IN  /\ frame.keyMaterial = M
            /\ frame.salt = S
            /\ frame.ciphertext = IF headed
                                  THEN [k \in 1..(Len(b) - 16) |-> b[16 + k]]
                                  ELSE b
            /\ frame.key = D1 \o D2
            /\ frame.iv = D3
            /\ EvpLoop(M, S, 48, [digest |-> <<>>, md5Hashes |-> <<>>,
                                  totalLen |-> 0]).totalLen = 3 * 16

\* C25's case: a password of 64 hex characters and a salted input have gone
\* through the derivation, the raw bytes being the key material.
C25_Witness ==
    /\ AesDerived
    /\ Len(frame.password) = 64
    /\ Len(frame.keyMaterial) = 32 /\ frame.keyMaterial[1] = 170
    /\ frame.salt = Repeat(255, 8)
    /\ Len(frame.ciphertext) = 16
    /\ Len(frame.key) = 32 /\ Len(frame.iv) = 16

\* C25's other case: a password that is hashed, an input without the header.
C25_WitnessUnsalted ==
    /\ AesDerived
    /\ frame.password = <<112, 119>>
    /\ frame.salt = Repeat(0, 8)
    /\ frame.ciphertext = BufferFromBase64(frame.encrypted)
    /\ Len(frame.ciphertext) = 16

(***************************************************************************)
(* Inputs of bits handed to parsePrivateKey.                               *)
(***************************************************************************)
\* A non-empty string of '0' and '1' only.
MadeOfBits(str) == str # <<>> /\ \A k \in 1..Len(str) : str[k] \in {48, 49}

\* The value of at most nine decimal digits, and of hexadecimal digits that
\* stand for a number of that size.
RECURSIVE SmallDecimal(_)
SmallDecimal(str) ==
    IF str = <<>> THEN 0
    ELSE 10 * SmallDecimal(SubSeq(str, 1, Len(str) - 1)) + (str[Len(str)] - 48)
RECURSIVE SmallHex(_)
SmallHex(str) ==
    IF str = <<>> THEN 0
    ELSE 16 * SmallHex(SubSeq(str, 1, Len(str) - 1)) + HexVal(str[Len(str)])

\* The key is the 64 hexadecimal digits of the value the string has read in
\* base 10: compared as numbers where the number is small, digit by digit
\* with the arbitrary-precision conversion otherwise.
IsBase10ValueOf(key, str) ==
    /\ Len(key) = 64
    /\ IF Len(str) <= 9
       THEN /\ SubSeq(key, 1, 56) = Repeat(48, 56)
            /\ SmallHex(SubSeq(key, 57, 64)) = SmallDecimal(str)
       ELSE key = PadStart64(BigToString16(BigIntDecimal(str)))

\* The class the claim gives the format binary: bits only, at most 256
\* characters, not 64 characters, base-10 value at least 2^256.
BinaryClass(str) ==
    /\ MadeOfBits(str)
    /\ Len(str) <= 256 /\ Len(str) # 64
    /\ ~IsDecimalBelow2p256(str)

\* What every input of bits outside that class gets: hex for 64 characters,
\* decimal with the base-10 value otherwise.
HexOrDecimal(out, str) ==
    IF Len(str) = 64
    THEN out.format = "hex" /\ out.privateKeyHex = str
    ELSE out.format = "decimal" /\ IsBase10ValueOf(out.privateKeyHex, str)

\* C30 as stated: parsePrivateKey returns 'binary' only for an input of '0'
\* and '1' characters, at most 256 and not 64 characters long, whose base-10
\* value is at least 2^256; every other non-empty input of '0' and '1' only
\* is returned as 'decimal' with its base-10 value, or as 'hex' when it is 64
\* characters long.
C30_BinaryOnlyBeyondDecimal ==
    KeyDone =>
        /\ frame.out.format = "binary" => BinaryClass(frame.input)
        /\ (MadeOfBits(frame.input) /\ ~BinaryClass(frame.input)) =>
               HexOrDecimal(frame.out, frame.input)

\* C30 amended: 'binary' is returned only for an input that, trimmed, is in
\* that class; every other non-empty input of '0' and '1' only is returned as
\* 'decimal' with its base-10 value, or as 'hex' when it is 64 characters
\* long, or, when it is longer than 256 characters and its base-10 value is at
\* least 2^256, as 'unknown' with no key; never as 'binary'.
C30_BinaryDecimalOrUnknown ==
    KeyDone =>
        /\ frame.out.format = "binary" => BinaryClass(Trim(frame.input))
        /\ (MadeOfBits(frame.input) /\ ~BinaryClass(frame.input)) =>
               /\ frame.out.format # "binary"
               /\ IF Len(frame.input) > 256 /\ ~IsDecimalBelow2p256(frame.input)
                  THEN frame.out.format = "unknown" /\ frame.out.privateKeyHex = <<>>
                  ELSE HexOrDecimal(frame.out, frame.input)

\* C30's case: "101" has gone through the parse and come back as the decimal
\* number 101, hexadecimal 65, not as the bits of 5.
C30_Witness ==
    /\ KeyDone
    /\ frame.input = <<49, 48, 49>>
    /\ frame.out.format = "decimal"
    /\ frame.out.privateKeyHex = Repeat(48, 62) \o <<54, 53>>

(***************************************************************************)
(* The Hugging Face call with retries (src/lib/agent-system.ts,            *)
(* callHuggingFaceAPI).  The server and the network are the environment:   *)
(* each request sent is answered by a response with a status and a body    *)
(* that can or cannot be read, or fails with a network error.              *)
(***************************************************************************)
MaxRetries == 3     \* largest value of the argument retries

\* The statuses answered: OK, not found, model loading.
HfStatuses == {200, 404, 503}

\* What a request can meet: a response, or the rejection of fetch.
HfOutcomes ==
    [kind : {"response"}, status : HfStatuses, readable : BOOLEAN]
    \cup {[kind |-> "network error", status |-> 0, readable |-> FALSE]}

\* response.ok
ResponseOk(r) == r.status \in 200..299

\* The errors met: [name, attempt] names the error and the request it came
\* from (0 for none).
HfError(name, attempt) == [name |-> name, attempt |-> attempt]
NoHfError == HfError("none", 0)

\* sent is the sequence of the outcomes of the requests sent so far; the
\* body of the answer to request n is n.
HfFrame(retries, hasKey) ==
    [retries |-> retries, hasKey |-> hasKey, attempt |-> 0, sent |-> <<>>,
     error |-> NoHfError, returned |-> FALSE, thrown |-> FALSE, out |-> 0]

InitHf ==
    /\ pc = "start"
    /\ op = "callHuggingFaceAPI"
    /\ ClassicIdle
    /\ \E retries \in 1..MaxRetries, hasKey \in BOOLEAN :
           frame = HfFrame(retries, hasKey)

\* Line 689, 679-685: getApiKey() throws when the variable is not set.
HfGetApiKey ==
    /\ op = "callHuggingFaceAPI" /\ pc = "start"
    /\ IF frame.hasKey
       THEN /\ pc' = "loop"
            /\ UNCHANGED frame
       ELSE /\ pc' = "done"
            /\ frame' = [frame EXCEPT !.thrown = TRUE,
                                      !.error = HfError("HUGGINGFACE_API_KEY not set", 0)]
    /\ UNCHANGED <<op, classicVars>>

\* The loop's test letting one attempt more through.
HfLoopTestOneMore ==
    /\ op = "callHuggingFaceAPI" /\ pc = "loop"
    /\ IF frame.attempt <= frame.retries
       THEN /\ pc' = "fetch"
            /\ UNCHANGED frame
       ELSE /\ pc' = "done"
            /\ frame' = [frame EXCEPT !.thrown = TRUE,
                                      !.error = HfError("Max retries exceeded", 0)]
    /\ UNCHANGED <<op, classicVars>>

\* Lines 691 and 724: the loop's test; 'Max retries exceeded' behind it.
HfLoopTest ==
    /\ op = "callHuggingFaceAPI" /\ pc = "loop"
    /\ IF frame.attempt < frame.retries
       THEN /\ pc' = "fetch"
            /\ UNCHANGED frame
       ELSE /\ pc' = "done"
            /\ frame' = [frame EXCEPT !.thrown = TRUE,
                                      !.error = HfError("Max retries exceeded", 0)]
    /\ UNCHANGED <<op, classicVars>>

\* Lines 693-700: the request is sent; fetch resolves with a response or
\* rejects.
HfFetch ==
    /\ op = "callHuggingFaceAPI" /\ pc = "fetch"
    /\ \E r \in HfOutcomes :
          /\ frame' = [frame EXCEPT
                 !.sent = Append(@, r),
                 !.error = IF r.kind = "network error"
                           THEN HfError("fetch failed", Len(frame.sent) + 1)
                           ELSE @]
          /\ pc' = IF r.kind = "network error" THEN "catch" ELSE "response"
    /\ UNCHANGED <<op, classicVars>>

\* Lines 702-709: status 503; the body is read, the wait is made, continue.
HfModelLoading ==
    /\ op = "callHuggingFaceAPI" /\ pc = "response"
    /\ LET r == frame.sent[Len(frame.sent)]
       IN  /\ r.status = 503
           /\ IF r.readable
              THEN /\ frame' = [frame EXCEPT !.attempt = @ + 1]
                   /\ pc' = "loop"
              ELSE /\ frame' = [frame EXCEPT
                          !.error = HfError("body not read", Len(frame.sent))]
                   /\ pc' = "catch"
    /\ UNCHANGED <<op, classicVars>>

\* Lines 711-714: another status that is not OK; the error is thrown with
\* the text of the body, or the error of reading it.
HfNotOk ==
    /\ op = "callHuggingFaceAPI" /\ pc = "response"
    /\ LET r == frame.sent[Len(frame.sent)]
       IN  /\ r.status # 503 /\ ~ResponseOk(r)
           /\ frame' = [frame EXCEPT
                  !.error = HfError(IF r.readable THEN "HF API error" ELSE "body not read",
                                    Len(frame.sent))]
    /\ pc' = "catch"
    /\ UNCHANGED <<op, classicVars>>

\* Line 716: return await response.json()
HfReturn ==
    /\ op = "callHuggingFaceAPI" /\ pc = "response"
    /\ LET r == frame.sent[Len(frame.sent)]
       IN  /\ r.status # 503 /\ ResponseOk(r)
           /\ IF r.readable
              THEN /\ frame' = [frame EXCEPT !.returned = TRUE, !.out = Len(frame.sent)]
                   /\ pc' = "done"
              ELSE /\ frame' = [frame EXCEPT
                          !.error = HfError("body not read", Len(frame.sent))]
                   /\ pc' = "catch"
    /\ UNCHANGED <<op, classicVars>>

\* Lines 717-721: the last attempt's error is thrown, an earlier one is
\* followed by a wait and the next attempt.
HfCatch ==
    /\ op = "callHuggingFaceAPI" /\ pc = "catch"
    /\ IF frame.attempt = frame.retries - 1
       THEN /\ frame' = [frame EXCEPT !.thrown = TRUE]
            /\ pc' = "done"
       ELSE /\ frame' = [frame EXCEPT !.attempt = @ + 1]
            /\ pc' = "loop"
    /\ UNCHANGED <<op, classicVars>>

NextHf ==
    HfGetApiKey \/ HfLoopTest \/ HfFetch \/ HfModelLoading \/ HfNotOk \/ HfReturn \/ HfCatch

SpecHf == InitHf /\ [][NextHf]_vars

(***************************************************************************)
(* Properties of the call with retries.                                    *)
(***************************************************************************)
HfRunning == op = "callHuggingFaceAPI"
HfDone == HfRunning /\ pc = "done"

\* Request k was answered with an OK status; and with a body that was read.
AnsweredOk(k) == frame.sent[k].kind = "response" /\ ResponseOk(frame.sent[k])
AnsweredWell(k) == AnsweredOk(k) /\ frame.sent[k].readable

\* The call has returned the body of request k, the last one sent.
ReturnedBodyOf(k) ==
    frame.returned /\ ~frame.thrown /\ frame.out = k /\ Len(frame.sent) = k

\* The call has thrown the error of its last request.
ThrownLastError ==
    /\ frame.thrown /\ ~frame.returned
    /\ Len(frame.sent) > 0
    /\ frame.error.attempt = Len(frame.sent)

\* The call has thrown the error named.
ThrownError(name) ==
    frame.thrown /\ ~frame.returned /\ frame.error = HfError(name, 0)

\* C29 as stated: at most retries requests are sent; the body of the first
\* response with an OK status is returned and nothing is sent after it; a
\* 503, another non-OK response and a network error each use up one attempt;
\* when no attempt succeeds the call throws the last attempt's error, or 'Max
\* retries exceeded' when the last attempt got a 503, and returns nothing.
C29_FirstOkReturned ==
    HfRunning =>
        /\ Len(frame.sent) <= frame.retries
        /\ pc = "loop" => frame.attempt = Len(frame.sent)
        /\ \A k \in 1..(Len(frame.sent) - 1) : ~AnsweredOk(k)
        /\ pc = "done" =>
               IF \E k \in 1..Len(frame.sent) : AnsweredOk(k)
               THEN ReturnedBodyOf(Len(frame.sent))
               ELSE IF frame.sent = <<>>
               THEN frame.thrown /\ ~frame.returned
               ELSE IF frame.sent[Len(frame.sent)].status = 503
               THEN ThrownError("Max retries exceeded")
               ELSE ThrownLastError

\* C29 amended: the response returned is the first with an OK status whose
\* body can be read; a response whose body cannot be read uses up one attempt
\* as well; 'Max retries exceeded' is thrown when the last attempt got a 503
\* whose body was read; and without an API key the error of getApiKey is
\* thrown before any request.
C29_FirstReadableOkReturned ==
    HfRunning =>
        /\ Len(frame.sent) <= frame.retries
        /\ pc = "loop" => frame.attempt = Len(frame.sent)
        /\ \A k \in 1..(Len(frame.sent) - 1) : ~AnsweredWell(k)
        /\ pc = "done" =>
               IF \E k \in 1..Len(frame.sent) : AnsweredWell(k)
               THEN ReturnedBodyOf(Len(frame.sent))
               ELSE IF ~frame.hasKey
               THEN ThrownError("HUGGINGFACE_API_KEY not set") /\ frame.sent = <<>>
               ELSE IF frame.sent[Len(frame.sent)].status = 503
                       /\ frame.sent[Len(frame.sent)].readable
               THEN ThrownError("Max retries exceeded") /\ Len(frame.sent) = frame.retries
               ELSE ThrownLastError /\ Len(frame.sent) = frame.retries

\* C29's case: the first request met a 503, the second a network error, the
\* third an OK response, whose body the call has returned.
C29_Witness ==
    /\ HfDone
    /\ Len(frame.sent) = 3
    /\ frame.sent[1].status = 503
    /\ frame.sent[2].kind = "network error"
    /\ AnsweredWell(3)
    /\ frame.returned /\ frame.out = 3

(***************************************************************************)
(* The agent (src/lib/agent-system.ts) and its endpoint                    *)
(* (src/app/api/agent/route.ts).  AgentState objects and their arrays live *)
(* in a heap, since the code shares them: objs[id] is an object holding    *)
(* the counter and the ids of its arrays, arrs[id] the content of an       *)
(* array.  A request runs from one await of input or output to the next in *)
(* one step.  The lists potentialKeys, webResearch and imageAnalysis are   *)
(* left out: no tool modelled here touches them.                           *)
(***************************************************************************)
MaxRequests == 3          \* requests handled by the endpoint
MaxIterations == 1        \* largest maxIterations of overlapping requests
MaxRunIterations == 3     \* largest maxIterations of a request that runs alone

\* maxIterations || 5
RouteDefaultIterations == 5

\* sessionId || "default"
Sessions == {"default"}

\* The tool calls tried: [tool, key].  check_balance waits for the network;
\* validate_key is given a key that matches the address ("right"), one that
\* does not ("wrong"), or a number, on which parsePrivateKey throws;
\* "no_such_tool" is no tool of agentTools.
ToolCall(tool, key) == [tool |-> tool, key |-> key]
ToolCalls ==
    { ToolCall("check_balance", "none"), ToolCall("no_such_tool", "none"),
      ToolCall("validate_key", "right"), ToolCall("validate_key", "wrong"),
      ToolCall("validate_key", "number") }

\* getTool(name) finds a tool.
getTool(name) == name \in {"check_balance", "validate_key"}

\* The fields of an AgentState that hold arrays.
ListFields == {"discoveries", "failedApproaches", "validatedResults", "logs"}

\* createAgentState(): a new object with four new empty arrays; [f, id].
createAgentState(f) ==
    LET n == Len(f.arrs)
    IN  [f  |-> [f EXCEPT !.arrs = @ \o <<<<>>, <<>>, <<>>, <<>>>>,
                          !.objs = Append(@, [attempts |-> 0, discoveries |-> n + 1,
                                              failedApproaches |-> n + 2,
                                              validatedResults |-> n + 3,
                                              logs |-> n + 4])],
         id |-> Len(f.objs) + 1]

\* array.push(v) on the array a
PushTo(f, a, v) == [f EXCEPT !.arrs[a] = Append(@, v)]

\* log(state, message)
AgentLog(f, s) == PushTo(f, f.objs[s].logs, "log")

\* { ...state, ...newState }: a new object; newState maps some list fields
\* to arrays.
Spread(f, s, newState) ==
    [f  |-> [f EXCEPT !.objs = Append(@, [k \in DOMAIN f.objs[s] |->
                                            IF k \in DOMAIN newState THEN newState[k]
                                            ELSE f.objs[s][k]])],
     id |-> Len(f.objs) + 1]

\* The empty newState {}.
NoFields == [k \in {} |-> 0]

\* agentStates.get(sessionId || "default") || createAgentState()
GetOrCreate(f, sid) ==
    IF f.agentStates[sid] # 0 THEN [f |-> f, id |-> f.agentStates[sid]]
    ELSE createAgentState(f)

\* validate_key's execute (lines 323-392), which waits for nothing, on the
\* state s: [f, id] with id the object executeTool returns.
ValidateKeyTool(f, key, s) ==
    LET o  == f.objs[s]
        f1 == AgentLog(f, s)
    IN  IF key = "number"
        THEN \* parsePrivateKey throws; executeTool's catch (582-589)
             [f |-> PushTo(f1, o.failedApproaches, "failed"), id |-> s]
        ELSE IF key = "right"
        THEN Spread(PushTo(PushTo(f1, o.validatedResults, TRUE), o.discoveries, "found"),
                    s, [validatedResults |-> o.validatedResults,
                        discoveries |-> o.discoveries])
        ELSE LET f2 == PushTo(f1, o.validatedResults, FALSE)
                 f3 == [f2 EXCEPT !.arrs = Append(@, Append(f2.arrs[o.failedApproaches],
                                                            "invalid"))]
             IN  Spread(f3, s, [validatedResults |-> o.validatedResults,
                                failedApproaches |-> Len(f3.arrs)])

\* executeTool(toolName, params, state) up to its return or to the await of
\* the network inside the tool: [f, id, awaiting].  sid is the session of
\* the request, whose executions are counted.
ExecuteToolBegin(f, call, s, sid) ==
    IF ~getTool(call.tool) THEN [f |-> f, id |-> s, awaiting |-> FALSE]
    ELSE LET f1 == [f EXCEPT !.objs[s].attempts = @ + 1,
                             !.executions[sid] = @ + 1]
         IN  IF call.tool = "check_balance"
             THEN [f |-> AgentLog(f1, s), id |-> s, awaiting |-> TRUE]
             ELSE LET v == ValidateKeyTool(f1, call.key, s)
                  IN  [f |-> v.f, id |-> v.id, awaiting |-> FALSE]

\* executeTool after check_balance's await (lines 401-418, 578-581):
\* newState is {} whatever the balance.
ExecuteToolEnd(f, s) == Spread(f, s, NoFields)

\* The state of the response: the counter and the content of the lists.
StateView(f, s) ==
    [k \in DOMAIN f.objs[s] |->
        IF k = "attempts" THEN f.objs[s].attempts ELSE f.arrs[f.objs[s][k]]]

\* What createAgentState() looks like in a response.
InitialView ==
    [attempts |-> 0, discoveries |-> <<>>, failedApproaches |-> <<>>,
     validatedResults |-> <<>>, logs |-> <<>>]

\* A request of the endpoint: its body (action, sessionId, the tool call,
\* max = maxIterations || 5), where its handler stands (pc), the locals
\* state and i, the state it began with (before) and what it answered
\* (status, view).  trace lists what a
\* run of the agent did: "iteration" when an iteration begins, followed by
\* "valid" when validatedResults then holds an entry with valid true;
\* "throws" and "no_json" for what the model call did; "tool" at each known
\* tool executed.  afterReset tells
\* whether the session had been reset, with no execute_tool or
\* run_autonomous begun since, when a get_state was answered.
AgentRequest(action, sid, call, max) ==
    [action |-> action, sessionId |-> sid, call |-> call, max |-> max,
     pc |-> "done", state |-> 0, i |-> 0, trace |-> <<>>,
     afterReset |-> FALSE, status |-> 200, before |-> InitialView,
     view |-> InitialView]

NoCall == ToolCall("", "none")

\* agentStates maps a session to its stored object (0: none).  executions
\* counts, for each session, the known tools executed since its creation or
\* last reset; resetClean tells that the session was reset and no
\* execute_tool or run_autonomous request has begun since.
AgentFrame ==
    [agentStates |-> [s \in Sessions |-> 0], objs |-> <<>>, arrs |-> <<>>,
     reqs |-> <<>>,
     executions |-> [s \in Sessions |-> 0],
     resetClean |-> [s \in Sessions |-> FALSE]]

AgentRunning == op = "agent"
MoreRequests == AgentRunning /\ Len(frame.reqs) < MaxRequests
AgentStep == UNCHANGED <<pc, op, classicVars>>

InitAgent ==
    /\ pc = "serving"
    /\ op = "agent"
    /\ ClassicIdle
    /\ frame = AgentFrame

\* Lines 17-24: list_tools
AgentListTools ==
    /\ MoreRequests
    /\ \E sid \in Sessions :
           frame' = [frame EXCEPT !.reqs = Append(@, AgentRequest("list_tools", sid, NoCall, 0))]
    /\ AgentStep

\* Lines 27-35 and 93-100: execute_tool without a tool name, or an action
\* that is none of the five; status 400.
AgentBadRequest ==
    /\ MoreRequests
    /\ \E sid \in Sessions, action \in {"execute_tool", "no_such_action"} :
           frame' = [frame EXCEPT !.reqs = Append(@,
                        [AgentRequest(action, sid, NoCall, 0) EXCEPT !.status = 400])]
    /\ AgentStep

\* Lines 10 and 102-112: req.json() rejects; status 500.
AgentError ==
    /\ MoreRequests
    /\ frame' = [frame EXCEPT !.reqs = Append(@,
                     [AgentRequest("none", "default", NoCall, 0) EXCEPT !.status = 500])]
    /\ AgentStep

\* Lines 14 and 70-85: get_state
AgentGetState ==
    /\ MoreRequests
    /\ \E sid \in Sessions :
          LET g == GetOrCreate(frame, sid)
          IN  frame' = [g.f EXCEPT !.reqs = Append(@,
                           [AgentRequest("get_state", sid, NoCall, 0) EXCEPT
                               !.state = g.id,
                               !.afterReset = frame.resetClean[sid],
                               !.view = StateView(g.f, g.id)])]
    /\ AgentStep

\* Lines 87-91: reset
AgentReset ==
    /\ MoreRequests
    /\ \E sid \in Sessions :
          LET c == createAgentState(frame)
          IN  frame' = [c.f EXCEPT !.agentStates[sid] = c.id,
                                   !.executions[sid] = 0,
                                   !.resetClean[sid] = TRUE,
                                   !.reqs = Append(@, AgentRequest("reset", sid, NoCall, 0))]
    /\ AgentStep

\* Lines 38-52: agentStates.set(sessionId, newState) and the response of
\* execute_tool, for the request r whose executeTool has returned s.
ExecuteToolDone(f, r, s) ==
    [f EXCEPT !.agentStates[f.reqs[r].sessionId] = s,
              !.reqs[r].pc = "done", !.reqs[r].state = s,
              !.reqs[r].view = StateView(f, s)]

\* Lines 14, 38: the request for execute_tool begins,
\* and ends unless the tool awaits.
ExecuteToolRequest(f, sid, call) ==
    LET g  == GetOrCreate(f, sid)
        r  == Len(f.reqs) + 1
        f1 == [g.f EXCEPT !.resetClean[sid] = FALSE,
                          !.reqs = Append(@, [AgentRequest("execute_tool", sid, call, 0)
                                                EXCEPT !.pc = "tool", !.state = g.id,
                                                       !.before = StateView(g.f, g.id)])]
        e  == ExecuteToolBegin(f1, call, g.id, sid)
    IN  IF e.awaiting THEN e.f ELSE ExecuteToolDone(e.f, r, e.id)

\* Lines 26-38: execute_tool
AgentExecuteTool ==
    /\ MoreRequests
    /\ \E sid \in Sessions, call \in ToolCalls :
           frame' = ExecuteToolRequest(frame, sid, call)
    /\ AgentStep

\* Lines 38-52: the tool's await is over; executeTool returns.
AgentExecuteToolEnd ==
    /\ AgentRunning
    /\ \E r \in 1..Len(frame.reqs) :
          /\ frame.reqs[r].action = "execute_tool" /\ frame.reqs[r].pc = "tool"
          /\ LET e == ExecuteToolEnd(frame, frame.reqs[r].state)
             IN  frame' = ExecuteToolDone(e.f, r, e.id)
    /\ AgentStep

\* Lines 658 and 54-68: runAutonomousAgent returns its state, which is
\* stored and answered.
RunReturn(f, r) ==
    [f EXCEPT !.agentStates[f.reqs[r].sessionId] = f.reqs[r].state,
              !.reqs[r].pc = "done",
              !.reqs[r].view = StateView(f, f.reqs[r].state)]

\* state.validatedResults.find((r) => r.valid)
HasValid(f, s) ==
    \E k \in 1..Len(f.arrs[f.objs[s].validatedResults]) :
        f.arrs[f.objs[s].validatedResults][k]

\* What the trace is told when an iteration begins.
IterationBegins(f, r) ==
    [f EXCEPT !.reqs[r].trace = @ \o (IF HasValid(f, f.reqs[r].state)
                                      THEN <<"iteration", "valid">>
                                      ELSE <<"iteration">>)]

\* The loop's head without the test for a valid key.
RunLoopHeadNoBreak(f, r) ==
    IF f.reqs[r].i < f.reqs[r].max
    THEN [IterationBegins(f, r) EXCEPT !.reqs[r].pc = "plan"]
    ELSE RunReturn(f, r)

\* Lines 601-607: the loop's test and the test for a valid key, up to the
\* await of the model's reply.
RunLoopHead(f, r) ==
    IF f.reqs[r].i < f.reqs[r].max
    THEN IF HasValid(f, f.reqs[r].state)
         THEN RunReturn(AgentLog(IterationBegins(f, r), f.reqs[r].state), r)
         ELSE [IterationBegins(f, r) EXCEPT !.reqs[r].pc = "plan"]
    ELSE RunReturn(f, r)

\* Lines 14, 54, 599: the request for run_autonomous begins; maxIterations
\* is 0 when the body names none.
RunAutonomousRequest(f, sid, maxIterations) ==
    LET g  == GetOrCreate(f, sid)
        c  == Spread(g.f, g.id, NoFields)
        r  == Len(f.reqs) + 1
        max == IF maxIterations = 0 THEN RouteDefaultIterations ELSE maxIterations
        f1 == [c.f EXCEPT !.resetClean[sid] = FALSE,
                          !.reqs = Append(@, [AgentRequest("run_autonomous", sid, NoCall, max)
                                                EXCEPT !.pc = "plan", !.state = c.id,
                                                       !.before = StateView(g.f, g.id)])]
    IN  RunLoopHead(f1, r)

\* Lines 53-55: run_autonomous
AgentRunAutonomous ==
    /\ MoreRequests
    /\ \E sid \in Sessions, maxIterations \in 1..MaxIterations :
           frame' = RunAutonomousRequest(frame, sid, maxIterations)
    /\ AgentStep

\* Lines 625-630 and 648-655: generateTextWithHF throws, or JSON.parse does;
\* the catch logs, and the delay is awaited.
RunPlanThrows ==
    /\ AgentRunning
    /\ \E r \in 1..Len(frame.reqs) :
          /\ frame.reqs[r].action = "run_autonomous" /\ frame.reqs[r].pc = "plan"
          /\ LET s  == frame.reqs[r].state
                 f1 == PushTo(AgentLog(frame, s), frame.objs[s].failedApproaches, "iteration")
             IN  frame' = [f1 EXCEPT !.reqs[r].pc = "delay",
                                     !.reqs[r].trace = Append(@, "throws")]
    /\ AgentStep

\* Lines 631-635: the reply holds no JSON object; continue.
RunPlanNoJson ==
    /\ AgentRunning
    /\ \E r \in 1..Len(frame.reqs) :
          /\ frame.reqs[r].action = "run_autonomous" /\ frame.reqs[r].pc = "plan"
          /\ LET f1 == AgentLog(frame, frame.reqs[r].state)
             IN  frame' = RunLoopHead([f1 EXCEPT !.reqs[r].i = @ + 1,
                                                 !.reqs[r].trace = Append(@, "no_json")], r)
    /\ AgentStep

\* Lines 645-647: state = newState; log(state, ...); then the delay.
RunToolDone(f, r, s) ==
    [AgentLog(f, s) EXCEPT !.reqs[r].state = s, !.reqs[r].pc = "delay"]

\* Lines 637-647: the reply names a tool, which executeTool runs.
RunPlanTool ==
    /\ AgentRunning
    /\ \E r \in 1..Len(frame.reqs), call \in ToolCalls :
          /\ frame.reqs[r].action = "run_autonomous" /\ frame.reqs[r].pc = "plan"
          /\ LET q  == frame.reqs[r]
                 f1 == [frame EXCEPT !.reqs[r].call = call,
                                     !.reqs[r].trace = IF getTool(call.tool)
                                                       THEN Append(@, "tool") ELSE @]
                 e  == ExecuteToolBegin(f1, call, q.state, q.sessionId)
             IN  frame' = IF e.awaiting THEN [e.f EXCEPT !.reqs[r].pc = "tool"]
                          ELSE RunToolDone(e.f, r, e.id)
    /\ AgentStep

\* Lines 644-647: the tool's await is over.
RunToolEnd ==
    /\ AgentRunning
    /\ \E r \in 1..Len(frame.reqs) :
          /\ frame.reqs[r].action = "run_autonomous" /\ frame.reqs[r].pc = "tool"
          /\ LET e == ExecuteToolEnd(frame, frame.reqs[r].state)
             IN  frame' = RunToolDone(e.f, r, e.id)
    /\ AgentStep

\* Lines 655 and 601: the delay is over; i++ and the loop's head.
RunDelayOver ==
    /\ AgentRunning
    /\ \E r \in 1..Len(frame.reqs) :
          /\ frame.reqs[r].action = "run_autonomous" /\ frame.reqs[r].pc = "delay"
          /\ frame' = RunLoopHead([frame EXCEPT !.reqs[r].i = @ + 1], r)
    /\ AgentStep

NextRun == RunPlanThrows \/ RunPlanNoJson \/ RunPlanTool \/ RunToolEnd \/ RunDelayOver

NextAgent ==
    \/ AgentListTools \/ AgentBadRequest \/ AgentError \/ AgentGetState \/ AgentReset
    \/ AgentExecuteTool \/ AgentExecuteToolEnd \/ AgentRunAutonomous
    \/ RunPlanThrows \/ RunPlanNoJson \/ RunPlanTool \/ RunToolEnd \/ RunDelayOver

SpecAgent == InitAgent /\ [][NextAgent]_vars

(***************************************************************************)
(* One run of the agent alone: a run_autonomous request on a session that  *)
(* holds no state, or the state an execute_tool request has left.  The     *)
(* model and the tools answer every call: each await of the run ends.      *)
(***************************************************************************)
InitRun ==
    /\ pc = "serving"
    /\ op = "agent"
    /\ ClassicIdle
    /\ \E maxIterations \in 0..MaxRunIterations :
          \/ frame = RunAutonomousRequest(AgentFrame, "default", maxIterations)
          \/ \E key \in {"right", "wrong"} :
                frame = RunAutonomousRequest(
                            ExecuteToolRequest(AgentFrame, "default",
                                               ToolCall("validate_key", key)),
                            "default", maxIterations)

SpecRun == InitRun /\ [][NextRun]_vars

FairRun == SpecRun /\ WF_vars(NextRun)

(***************************************************************************)
(* Properties of the endpoint.                                             *)
(***************************************************************************)
\* The request r has been answered.
Answered(r) == frame.reqs[r].pc = "done"

\* C26: once a reset for a session has been processed, get_state for that
\* session returns the initial state (attempts 0, every list empty) until a
\* later execute_tool or run_autonomous request for that session is received,
\* also when such a request was still in progress at the reset.
C26_ResetHolds ==
    AgentRunning =>
        \A r \in 1..Len(frame.reqs) :
            (frame.reqs[r].action = "get_state" /\ frame.reqs[r].afterReset) =>
                frame.reqs[r].view = InitialView

\* The requests for a session that change its state have all been answered.
Quiet(sid) ==
    \A r \in 1..Len(frame.reqs) :
        (frame.reqs[r].sessionId = sid
         /\ frame.reqs[r].action \in {"execute_tool", "run_autonomous"}) => Answered(r)

\* Every execute_tool request naming an unknown tool has answered the
\* state it began with.
UnknownToolKeeps ==
    \A r \in 1..Len(frame.reqs) :
        (/\ frame.reqs[r].action = "execute_tool" /\ frame.reqs[r].status = 200
         /\ ~getTool(frame.reqs[r].call.tool)
         /\ Answered(r)) =>
            frame.reqs[r].view = frame.reqs[r].before

\* C27: the attempts counter stored for a session equals the number of known
\* tools executed for it since its creation or last reset, whether the tool
\* succeeded or threw, however execute_tool and run_autonomous requests
\* overlap, also when the session had no stored state; a request naming an
\* unknown tool leaves attempts and every list unchanged.
C27_AttemptsCountExecutions ==
    AgentRunning =>
        /\ \A sid \in Sessions :
              Quiet(sid) =>
                  (IF frame.agentStates[sid] = 0 THEN 0
                   ELSE frame.objs[frame.agentStates[sid]].attempts)
                      = frame.executions[sid]
        /\ UnknownToolKeeps

\* The same without reset requests: the counter is wrong also when no reset
\* takes part.
AttemptsCountWithoutReset ==
    (AgentRunning /\ \A r \in 1..Len(frame.reqs) : frame.reqs[r].action # "reset") =>
        C27_AttemptsCountExecutions

(***************************************************************************)
(* Properties of a run of the agent alone.                                 *)
(***************************************************************************)
\* The positions of trace t that hold the event e.
Events(t, e) == {k \in 1..Len(t) : t[k] = e}

\* What the trace t of a run with maxIterations = max may look like.
RunTraceRight(t, max, ended) ==
    \* at most max iterations
    /\ Cardinality(Events(t, "iteration")) <= max
    \* at most one tool per iteration
    /\ \A k \in Events(t, "tool"), m \in Events(t, "tool") :
           k < m => \E j \in (k + 1)..(m - 1) : t[j] = "iteration"
    \* a model call that throws or a reply without JSON: no tool in that
    \* iteration, and the loop goes on with the next iteration if one is left
    /\ \A k \in Events(t, "throws") \cup Events(t, "no_json") :
           /\ t[k - 1] = "iteration"
           /\ k < Len(t) => t[k + 1] = "iteration"
           /\ (k = Len(t) /\ ended) => Cardinality(Events(t, "iteration")) = max
    \* an iteration that begins with a valid entry: no tool in it or after it
    /\ \A k \in Events(t, "valid") : \A m \in (k + 1)..Len(t) : t[m] # "tool"

\* C28: runAutonomousAgent ends after at most maxIterations iterations when
\* every model call and tool call returns or throws; it executes at most one
\* tool per iteration; an iteration whose model call throws or whose reply
\* holds no JSON object executes no tool and does not end the loop; no tool
\* is executed in or after an iteration that begins with validatedResults
\* holding an entry whose valid flag is true.
C28_RunEndsInTime ==
    /\ [](AgentRunning =>
             \A r \in 1..Len(frame.reqs) :
                 frame.reqs[r].action = "run_autonomous" =>
                     RunTraceRight(frame.reqs[r].trace, frame.reqs[r].max, Answered(r)))
    /\ <>(AgentRunning /\ \A r \in 1..Len(frame.reqs) : Answered(r))

\* C28's case: a run of three iterations has ended: the model call threw in
\* the first, validate_key found the key in the second, the third began
\* with the valid entry and ended the loop.
C28_Witness ==
    /\ AgentRunning
    /\ Len(frame.reqs) = 1 /\ Answered(1)
    /\ frame.reqs[1].action = "run_autonomous" /\ frame.reqs[1].max = 3
    /\ frame.reqs[1].trace = <<"iteration", "throws", "iteration", "tool",
                               "iteration", "valid">>
    /\ frame.reqs[1].view.attempts = 1
    /\ frame.reqs[1].view.validatedResults = <<TRUE>>
====
